---- MODULE Spec2Model ----
(***************************************************************************)
(* koa-git-smart-proxy: the pkt-line codec and packet segmenter            *)
(* (src/src/helpers.ts), the service stream engine (src/src/source.ts)     *)
(* and the accept/reject front of the proxy (src/src/index.ts).            *)
(*                                                                         *)
(* A byte is a one-character string ("NUL" names the zero byte); a buffer  *)
(* is a sequence of bytes.  A JavaScript number is a record                *)
(* [nan |-> BOOLEAN, v |-> Int]: the segmenter computes with NaN.          *)
(***************************************************************************)
EXTENDS Integers, Sequences, FiniteSets, TLC

(***************************************************************************)
(* Bounds of the model.                                                    *)
(***************************************************************************)
\* longest raw byte sequence handed to the segmenter
MaxRawLen == 4
\* most cut points of a chunking of the segmenter's input
MaxCuts == 2
\* most resumptions of the segmenter's loop after `await next_tick()`
MaxTicks == 4
\* most lines of a fetch request before its terminator
MaxFrames == 2
\* most chunks of pack data after the flush packet of a push request
MaxPack == 2
\* most chunks of backend output
MaxOut == 2
\* most messages handed to verbose()
MaxVerbose == 1
\* most calls of accept() and reject() on one proxy
MaxCalls == 2

(***************************************************************************)
(* JavaScript numbers.                                                     *)
(***************************************************************************)
Num(n) == [nan |-> FALSE, v |-> n]

NaN == [nan |-> TRUE, v |-> 0]

\* a + b
JsAdd(a, b) == IF a.nan \/ b.nan THEN NaN ELSE Num(a.v + b.v)

\* a === n, a > n, a >= n, a < n for an integer n: every comparison with NaN is false
JsEq(a, n) == ~a.nan /\ a.v = n

JsGt(a, n) == ~a.nan /\ a.v > n

JsGe(a, n) == ~a.nan /\ a.v >= n

JsLt(a, n) == ~a.nan /\ a.v < n

(***************************************************************************)
(* Bytes and buffers.                                                      *)
(***************************************************************************)
NUL == "NUL"

LF == "\n"

Digits == <<"0", "1", "2", "3", "4", "5", "6", "7", "8", "9",
            "a", "b", "c", "d", "e", "f">>

UpperDigits == <<"0", "1", "2", "3", "4", "5", "6", "7", "8", "9",
                 "A", "B", "C", "D", "E", "F">>

\* [0-9a-f]
IsLowerHex(c) == \E i \in 1..Len(Digits) : Digits[i] = c

\* a digit of radix 16, either case
IsHex(c) == IsLowerHex(c) \/ \E i \in 1..Len(UpperDigits) : UpperDigits[i] = c

HexVal(c) ==
  IF IsLowerHex(c)
  THEN (CHOOSE i \in 1..Len(Digits) : Digits[i] = c) - 1
  ELSE (CHOOSE i \in 1..Len(UpperDigits) : UpperDigits[i] = c) - 1

\* the white space parseInt and String.prototype.trim skip
IsWhiteSpace(c) == c \in {" ", "\n", "\t", "\r"}

RECURSIVE Concat(_)
\* Buffer.concat(list)
Concat(list) == IF list = <<>> THEN <<>> ELSE Head(list) \o Concat(Tail(list))

\* Buffer#slice's adjustOffset: NaN counts as 0, a negative offset counts from the
\* end, and the result is clamped to 0..length
AdjustOffset(o, length) ==
  IF o.nan \/ o.v = 0 THEN 0
  ELSE IF o.v < 0 THEN (IF o.v + length > 0 THEN o.v + length ELSE 0)
  ELSE IF o.v < length THEN o.v
  ELSE length

\* buffer.slice(start, end)
Slice(buffer, start, end) ==
  LET s == AdjustOffset(start, Len(buffer))
      e == AdjustOffset(end, Len(buffer))
  IN IF e > s THEN SubSeq(buffer, s + 1, e) ELSE <<>>

\* buffer.slice(start)
SliceFrom(buffer, start) ==
  LET s == AdjustOffset(start, Len(buffer))
  IN SubSeq(buffer, s + 1, Len(buffer))

\* readable.push(chunk) on a stream of bytes: a zero-length chunk adds nothing
Push(queue, chunk) == IF chunk = <<>> THEN queue ELSE Append(queue, chunk)

(***************************************************************************)
(* Pkt-line codec (src/src/helpers.ts).                                    *)
(***************************************************************************)
RECURSIVE SkipWhiteSpace(_)
SkipWhiteSpace(s) ==
  IF s # <<>> /\ IsWhiteSpace(Head(s)) THEN SkipWhiteSpace(Tail(s)) ELSE s

RECURSIVE HexPrefixLen(_)
\* how many leading bytes of s are digits of radix 16
HexPrefixLen(s) ==
  IF s # <<>> /\ IsHex(Head(s)) THEN 1 + HexPrefixLen(Tail(s)) ELSE 0

RECURSIVE HexValue(_, _)
\* the value of the digits s, after the digits already worth acc
HexValue(s, acc) ==
  IF s = <<>> THEN acc ELSE HexValue(Tail(s), 16 * acc + HexVal(Head(s)))

\* Number.parseInt(s, 16): white space is skipped, then a sign, then `0x`, then
\* the longest run of digits is read; no digit gives NaN.  It never throws.
ParseInt16(s) ==
  LET t    == SkipWhiteSpace(s)
      neg  == t # <<>> /\ Head(t) = "-"
      u    == IF t # <<>> /\ Head(t) \in {"-", "+"} THEN Tail(t) ELSE t
      w    == IF Len(u) >= 2 /\ u[1] = "0" /\ u[2] \in {"x", "X"}
              THEN SubSeq(u, 3, Len(u)) ELSE u
      n    == HexPrefixLen(w)
      val  == HexValue(SubSeq(w, 1, n), 0)
  IN IF n = 0 THEN NaN ELSE Num(IF neg THEN 0 - val ELSE val)

\* pkt_length(buffer, offset): the slice ends at index 4 whatever the offset;
\* the catch branch is never taken, so a failure is NaN and not -1
pkt_length(buffer, offset) == ParseInt16(Slice(buffer, offset, Num(4)))

RECURSIVE ToHex(_)
\* n.toString(16)
ToHex(n) == IF n < 16 THEN <<Digits[n + 1]>> ELSE ToHex(n \div 16) \o <<Digits[(n % 16) + 1]>>

\* '0'.repeat(k): k below 0 throws a RangeError, which no input of this model reaches
Zeros(k) == [i \in 1..k |-> "0"]

\* pkt_write_line without the padding of the size (a variant used to test
\* the properties below)
pkt_write_line_unpadded(input) == ToHex(4 + Len(input)) \o input

\* pkt_write_line(input)
pkt_write_line(input) ==
  LET size == ToHex(4 + Len(input))
  IN Zeros(4 - Len(size)) \o size \o input

(***************************************************************************)
(* Packet segmenter (pkt_seperator).  One record per run:                  *)
(*   pc        "idle": between chunks; "tick": inside the loop, suspended  *)
(*             at `await next_tick()`                                      *)
(*   chunks    the chunks not yet handed to transform()                    *)
(*   buffer, offset, length, underflow   the variables of the source       *)
(*   out       the chunks pushed so far                                    *)
(*   ticks     how often the loop was resumed                              *)
(*   ended     the writable side was ended and the readable side closed    *)
(*   error     an error was passed to next() or emitted; no line of the    *)
(*             source does either                                          *)
(* Two runs are kept side by side: "whole" is handed the input as one      *)
(* chunk, "split" the same input cut into chunks.                          *)
(***************************************************************************)
VARIABLES
  sep,   \* the segmenter runs
  req,   \* the classified request (fixed once the proxy is constructed)
  gs,    \* the engine: a GitStream with its inner `source` duplex
  io,    \* what surrounds the engine: request pipe, backend process
  px,    \* the proxy: status, response, accept() in flight, counts of the calls made,
         \* the arguments of the reject() that took the status
  ex,    \* a call of exists(): the backend it started and what it has heard from it
  mw,    \* the middleware around the downstream handlers
  cl,    \* a request as it arrives and what match() makes of it
  pk,    \* a payload handed to pkt_write_line and the line read back by pkt_length
  er     \* the 'error' events of the streams around the engine, and of the engine

vars == <<sep, req, gs, io, px, ex, mw, cl, pk, er>>

Runs == {"whole", "split"}

\* `underflow` is undefined or a Buffer; a Buffer is truthy even when empty
NoUnderflow == [set |-> FALSE, buf |-> <<>>]

\* the code after the loop: the overflow push, then next()
SepFinish(s) ==
  [s EXCEPT !.pc = "idle",
            !.out = IF ~s.underflow.set /\ JsLt(s.offset, Len(s.buffer))
                    THEN Push(s.out, SliceFrom(s.buffer, s.offset))
                    ELSE s.out]

\* one pass through the body of the do-while, up to the break or the await
SepIterate(s) ==
  LET offset == JsAdd(JsAdd(s.offset, s.length), Num(1))
      len0   == pkt_length(s.buffer, offset)
      length == IF JsEq(len0, 0) THEN Num(4) ELSE len0
  IN IF JsEq(offset, 0) /\ JsEq(len0, -1)
     THEN SepFinish([s EXCEPT !.offset = offset, !.length = len0])
     ELSE IF JsGt(JsAdd(offset, length), Len(s.buffer))
     THEN SepFinish([s EXCEPT !.offset = offset, !.length = length,
                              !.underflow = [set |-> TRUE,
                                             buf |-> SliceFrom(s.buffer, offset)]])
     ELSE [s EXCEPT !.pc = "tick", !.offset = offset, !.length = length,
                    !.out = IF JsGe(length, 4)
                            THEN Push(s.out, Slice(s.buffer, offset, length))
                            ELSE Push(s.out, SliceFrom(s.buffer, offset))]

\* transform(buffer, encoding, next) up to its first suspension
SepTransformOf(s) ==
  LET buffer == IF s.underflow.set THEN s.underflow.buf \o Head(s.chunks)
                ELSE Head(s.chunks)
  IN SepIterate([s EXCEPT !.chunks = Tail(s.chunks), !.buffer = buffer,
                          !.underflow = NoUnderflow,
                          !.length = Num(0), !.offset = Num(-1)])

\* the loop resumed after `await next_tick()`: `while (length !== -1)`
SepResumeOf(s) ==
  IF JsEq(s.length, -1)
  THEN SepFinish([s EXCEPT !.ticks = s.ticks + 1])
  ELSE SepIterate([s EXCEPT !.ticks = s.ticks + 1])

SepTransform(r) ==
  /\ sep[r].pc = "idle"
  /\ sep[r].chunks # <<>>
  /\ sep' = [sep EXCEPT ![r] = SepTransformOf(sep[r])]
  /\ UNCHANGED <<req, gs, io, px, ex, mw, cl, pk, er>>

SepNextTick(r) ==
  /\ sep[r].pc = "tick"
  /\ sep[r].ticks < MaxTicks
  /\ sep' = [sep EXCEPT ![r] = SepResumeOf(sep[r])]
  /\ UNCHANGED <<req, gs, io, px, ex, mw, cl, pk, er>>

\* end() of the transform once the last chunk was acknowledged: no flush
\* function is given, so what `underflow` holds is left behind and the
\* readable side is closed
SepEnd(r) ==
  /\ sep[r].pc = "idle"
  /\ sep[r].chunks = <<>>
  /\ sep[r].input # <<>>
  /\ ~sep[r].ended
  /\ sep' = [sep EXCEPT ![r].ended = TRUE]
  /\ UNCHANGED <<req, gs, io, px, ex, mw, cl, pk, er>>

\* a run can take no further step within the bounds
SepStopped(r) ==
  \/ sep[r].pc = "idle" /\ sep[r].chunks = <<>> /\ sep[r].ended
  \/ sep[r].pc = "tick" /\ sep[r].ticks >= MaxTicks

\* every chunk was handed over and acknowledged with next()
SepDone(r) == sep[r].pc = "idle" /\ sep[r].chunks = <<>>

(***************************************************************************)
(* Inputs of the segmenter.                                                *)
(***************************************************************************)
SepAlphabet == {"0", "1", "4", "x", "-"}

RECURSIVE SeqsUpTo(_, _)
\* the sequences over S of length 0..n
SeqsUpTo(S, n) ==
  IF n = 0 THEN {<<>>}
  ELSE LET shorter == SeqsUpTo(S, n - 1)
       IN shorter \cup {Append(q, c) : q \in {p \in shorter : Len(p) = n - 1}, c \in S}

FlushPkt == <<"0", "0", "0", "0">>

\* well-formed frames: pkt_write_line of a payload, and the flush packet
SepFrames == {FlushPkt, pkt_write_line(<<>>), pkt_write_line(<<"x">>),
              pkt_write_line(<<"x", "4", "0", "x">>)}

\* concatenations of one to three well-formed frames
SepFramed ==
  SepFrames
    \cup {f \o g : f \in SepFrames, g \in SepFrames}
    \cup {f \o g \o FlushPkt : f \in SepFrames \ {FlushPkt}, g \in SepFrames \ {FlushPkt}}

SepInputs == (SeqsUpTo(SepAlphabet, MaxRawLen) \ {<<>>}) \cup SepFramed

RECURSIVE CutAt(_, _, _)
\* D cut at the ascending positions of `cuts` (each in 1..Len(D)-1), from `from` on
CutAt(D, cuts, from) ==
  IF cuts = <<>> THEN <<SubSeq(D, from + 1, Len(D))>>
  ELSE <<SubSeq(D, from + 1, Head(cuts))>> \o CutAt(D, Tail(cuts), Head(cuts))

RECURSIVE AscendingUpTo(_, _, _)
\* the strictly ascending sequences of at most k numbers of lo..hi
AscendingUpTo(lo, hi, k) ==
  IF k = 0 \/ lo > hi THEN {<<>>}
  ELSE {<<>>} \cup UNION {{<<i>> \o rest : rest \in AscendingUpTo(i + 1, hi, k - 1)} :
                          i \in lo..hi}

\* the ways of cutting D into at most MaxCuts + 1 non-empty chunks
Chunkings(D) == {CutAt(D, cuts, 0) : cuts \in AscendingUpTo(1, Len(D) - 1, MaxCuts)}

\* a run of the segmenter before its first chunk; `input` records what the run
\* is given and `out` what it pushed
SepStart(chunks) ==
  [pc |-> "idle", chunks |-> chunks, buffer |-> <<>>, offset |-> Num(-1),
   length |-> Num(0), underflow |-> NoUnderflow, out |-> <<>>, ticks |-> 0,
   input |-> chunks, ended |-> FALSE, error |-> FALSE]

\* the segmenter at rest, in the specification that does not run it
SepIdle == [r \in Runs |-> SepStart(<<>>)]

(***************************************************************************)
(* 'error' events.  The engine listens to `source` from 'parsed' on        *)
(* (source.ts:113) and to the stdout and stdin of the backend from the     *)
(* continuation of process() on (source.ts:221-222); the proxy listens to  *)
(* the request with a listener that throws (index.ts:71).                  *)
(*   raised    the errors the streams emitted, each with whether the       *)
(*             stream was attached (the source: existed) at that time      *)
(*   emitted   the errors emitted on the engine                            *)
(*   aborted   the request emitted 'error' or 'aborted'                    *)
(*   thrown    how often a listener threw out of the emit                  *)
(***************************************************************************)
MaxErrors == 2

ErIdle == [raised |-> <<>>, emitted |-> <<>>, aborted |-> FALSE, thrown |-> 0]

ErrorOrigins == {"stdout", "stdin", "source"}

\* a variant of the listeners in which only stdout is listened to
ListenedStdoutOnly(g, attached, w) == w = "stdout" /\ attached

\* whether the engine has a listener for 'error' on the stream w
Listened(g, attached, w) == IF w = "source" THEN g.source ELSE attached

\* whether the stream w is attached: stdout and stdin once process() has piped
\* them, `source` as soon as it exists
Attached(g, attached, w) == IF w = "source" THEN g.source ELSE attached

\* the stream w emits 'error'
OnStreamError(e, g, attached, w) ==
  [e EXCEPT !.raised = Append(e.raised, [from |-> w, attached |-> Attached(g, attached, w)]),
            !.emitted = IF Listened(g, attached, w) THEN Append(e.emitted, w)
                        ELSE e.emitted]

(***************************************************************************)
(* The codec on its own: a payload is handed to pkt_write_line and the     *)
(* length of the line is read back with pkt_length at offset 0.            *)
(*   pc      "off", "input", "written", "read"                             *)
(*   input   the payload; line  the result of pkt_write_line               *)
(*   length  the result of pkt_length                                      *)
(***************************************************************************)
PkIdle == [pc |-> "off", input |-> <<>>, line |-> <<>>, length |-> NaN]

\* the payloads enumerated in full, and the lengths at which the size gains a digit
MaxPayload == 3

EdgeLengths == {11, 12, 251, 252, 4091, 4092, 65531}

WriteLine ==
  /\ pk.pc = "input"
  /\ pk' = [pk EXCEPT !.pc = "written", !.line = pkt_write_line(pk.input)]
  /\ UNCHANGED <<sep, req, gs, io, px, ex, mw, cl, er>>

ReadLength ==
  /\ pk.pc = "written"
  /\ pk' = [pk EXCEPT !.pc = "read", !.length = pkt_length(pk.line, Num(0))]
  /\ UNCHANGED <<sep, req, gs, io, px, ex, mw, cl, er>>

(***************************************************************************)
(* Service stream engine (src/src/source.ts).                              *)
(***************************************************************************)
zero_buffer == <<"0", "0", "0", "0">>

\* headers[service]; `headers[undefined]` is undefined, and push(undefined) adds
\* nothing to a stream of bytes
Headers(service) ==
  CASE service = "upload-pack" ->
         <<"0", "0", "1", "e", "#", " ", "s", "e", "r", "v", "i", "c", "e", "=",
           "g", "i", "t", "-", "u", "p", "l", "o", "a", "d", "-", "p", "a", "c", "k",
           LF, "0", "0", "0", "0">>
    [] service = "receive-pack" ->
         <<"0", "0", "1", "f", "#", " ", "s", "e", "r", "v", "i", "c", "e", "=",
           "g", "i", "t", "-", "r", "e", "c", "e", "i", "v", "e", "-", "p", "a", "c", "k",
           LF, "0", "0", "0", "0">>
    [] OTHER -> <<>>

\* the length of an object id in the patterns of `matches`
IdLen == 40

AllLowerHex(s) == \A i \in 1..Len(s) : IsLowerHex(s[i])

\* the line terminators `.` does not match
IsLineTerminator(c) == c \in {"\n", "\r"}

NoMatch == [ok |-> FALSE]

\* matches['upload-pack'].exec(message):
\*   /^[0-9a-f]{4}(want|have) ([0-9a-f]{40})\n?$/
MatchUpload(m) ==
  LET n == Len(m) IN
  IF /\ n \in {9 + IdLen, 10 + IdLen}
     /\ AllLowerHex(SubSeq(m, 1, 4))
     /\ SubSeq(m, 5, 8) \in {<<"w", "a", "n", "t">>, <<"h", "a", "v", "e">>}
     /\ m[9] = " "
     /\ AllLowerHex(SubSeq(m, 10, 9 + IdLen))
     /\ (n = 10 + IdLen => m[n] = LF)
  THEN [ok |-> TRUE,
        g1 |-> IF m[5] = "w" THEN "want" ELSE "have",
        g2 |-> SubSeq(m, 10, 9 + IdLen)]
  ELSE NoMatch

\* where the ref path starts in a receive-pack command: after the length, the
\* two ids and the two spaces
RefStart == 4 + IdLen + 1 + IdLen + 1 + 1

\* the tail of the receive-pack pattern from the NUL at position p on:
\*   (?:\u0000([^\n]*)?\n?$)
TailMatches(m, p) ==
  /\ p <= Len(m)
  /\ m[p] = NUL
  /\ \A i \in (p + 1)..(Len(m) - 1) : m[i] # LF

\* the ways ([^\/]+?)s?\/(.*?) can match from `from` on with the tail after it:
\* t bytes of type, an `s` taken or not, n bytes of name
RefSplits(m, from) ==
  {c \in [t : 1..Len(m), s : BOOLEAN, n : 0..Len(m)] :
     LET afterType == from + c.t
         slash     == IF c.s THEN afterType + 1 ELSE afterType
         nameStart == slash + 1
     IN /\ nameStart + c.n <= Len(m)
        /\ \A i \in from..(afterType - 1) : m[i] # "/"
        /\ (c.s => m[afterType] = "s")
        /\ m[slash] = "/"
        /\ \A i \in nameStart..(nameStart + c.n - 1) : ~IsLineTerminator(m[i])
        /\ TailMatches(m, nameStart + c.n)}

\* the backtracking order: the lazy type as short as possible, then the greedy
\* `s?` taken, then the lazy name as short as possible
RefBefore(a, b) ==
  \/ a.t < b.t
  \/ a.t = b.t /\ a.s /\ ~b.s
  \/ a.t = b.t /\ a.s = b.s /\ a.n <= b.n

\* matches['receive-pack'].exec(message):
\*   /^[0-9a-f]{4}([0-9a-f]{40}) ([0-9a-f]{40}) (refs\/([^\/]+?)s?\/(.*?))(?:\u0000([^\n]*)?\n?$)/
MatchReceive(m) ==
  IF /\ Len(m) >= RefStart + 4
     /\ AllLowerHex(SubSeq(m, 1, 4))
     /\ AllLowerHex(SubSeq(m, 5, 4 + IdLen))
     /\ m[5 + IdLen] = " "
     /\ AllLowerHex(SubSeq(m, 6 + IdLen, 5 + 2 * IdLen))
     /\ m[6 + 2 * IdLen] = " "
     /\ SubSeq(m, RefStart, RefStart + 4) = <<"r", "e", "f", "s", "/">>
     /\ RefSplits(m, RefStart + 5) # {}
  THEN LET from == RefStart + 5
           all  == RefSplits(m, from)
           c    == CHOOSE a \in all : \A b \in all : RefBefore(a, b)
           slash == IF c.s THEN from + c.t + 1 ELSE from + c.t
           nul  == slash + 1 + c.n
           last == IF m[Len(m)] = LF /\ Len(m) > nul THEN Len(m) - 1 ELSE Len(m)
       IN [ok |-> TRUE,
           g1 |-> SubSeq(m, 5, 4 + IdLen),
           g2 |-> SubSeq(m, 6 + IdLen, 5 + 2 * IdLen),
           g3 |-> SubSeq(m, RefStart, nul - 1),
           g4 |-> SubSeq(m, from, from + c.t - 1),
           g5 |-> SubSeq(m, slash + 1, nul - 1),
           g6 |-> SubSeq(m, nul + 1, last)]
  ELSE NoMatch

RECURSIVE TrimEnd(_)
TrimEnd(s) ==
  IF s # <<>> /\ IsWhiteSpace(s[Len(s)]) THEN TrimEnd(SubSeq(s, 1, Len(s) - 1)) ELSE s

\* s.trim()
Trim(s) == TrimEnd(SkipWhiteSpace(s))

RECURSIVE SplitOn(_, _, _)
\* s.split(c): `cur` is the piece being read
SplitOn(s, c, cur) ==
  IF s = <<>> THEN <<cur>>
  ELSE IF Head(s) = c THEN <<cur>> \o SplitOn(Tail(s), c, <<>>)
  ELSE SplitOn(Tail(s), c, Append(cur, Head(s)))

\* a variant that keeps the capability segment in one piece
CapabilitiesUnsplit(g6) == IF g6 = <<>> THEN <<>> ELSE <<Trim(g6)>>

\* results[6] ? results[6].trim().split(' ') : []
Capabilities(g6) == IF g6 = <<>> THEN <<>> ELSE SplitOn(Trim(g6), " ", <<>>)

\* a variant of the push that puts the id in front of the list
MetadataPushFront(metadata, type, id) ==
  IF type \in DOMAIN metadata
  THEN [metadata EXCEPT ![type] = <<id>> \o @]
  ELSE (type :> <<id>>) @@ metadata

\* metadata[type].push(id), the list created on first use
MetadataPush(metadata, type, id) ==
  IF type \in DOMAIN metadata
  THEN [metadata EXCEPT ![type] = Append(@, id)]
  ELSE (type :> <<id>>) @@ metadata

\* UploadStream._write, the branch `if (results)`
UploadParse(metadata, message) ==
  LET results == MatchUpload(message)
  IN IF results.ok THEN MetadataPush(metadata, results.g1, results.g2) ELSE metadata

\* ReceiveStream._write, the branch `if (results)`
ReceiveParse(metadata, message) ==
  LET results == MatchReceive(message)
  IN IF results.ok
     THEN ("old_commit" :> results.g1) @@ ("new_commit" :> results.g2)
          @@ ("ref" :> results.g3) @@ ("reftype" :> results.g4)
          @@ ("refname" :> results.g5)
          @@ ("capabilities" :> Capabilities(results.g6)) @@ metadata
     ELSE metadata

RECURSIVE PushAll(_, _)
PushAll(queue, list) ==
  IF list = <<>> THEN queue ELSE PushAll(Push(queue, Head(list)), Tail(list))

NoBuffers == [set |-> FALSE, list |-> <<>>]

\* a variant of source._read that forgets the buffered chunks instead of
\* replaying them
SourceReadNoReplay(g) ==
  LET g1 == IF g.buffers.set THEN [g EXCEPT !.buffers = NoBuffers] ELSE g
  IN IF g1.next THEN [g1 EXCEPT !.next = FALSE] ELSE g1

\* a variant of source._read that acknowledges a pending write first and
\* replays the buffered chunks only when none is pending
SourceReadLate(g) ==
  IF g.next THEN [g EXCEPT !.next = FALSE]
  ELSE IF g.buffers.set
  THEN [g EXCEPT !.src_queue = PushAll(g.src_queue, g.buffers.list),
                 !.buffers = NoBuffers]
  ELSE g

\* source._read(size): the buffered chunks are replayed into `source` once, then
\* the engine's pending write is acknowledged
SourceRead(g) ==
  LET g1 == IF g.buffers.set
            THEN [g EXCEPT !.src_queue = PushAll(g.src_queue, g.buffers.list),
                           !.buffers = NoBuffers]
            ELSE g
  IN IF g1.next THEN [g1 EXCEPT !.next = FALSE] ELSE g1

\* the listener of 'parsed' registered by the constructor; `service` is what
\* this.service holds when the event is emitted
OnParsed(g, service) ==
  LET g1 == [g EXCEPT !.source = TRUE,
                      !.verbose = g.band.set,
                      !.out = IF g.hasInfo THEN Push(g.out, Headers(service)) ELSE g.out]
  IN IF g1.ready THEN SourceRead(g1) ELSE g1

\* new UploadStream(options) / new ReceiveStream(options): the constructor of
\* GitStream emits 'parsed' itself when has_info is set; `service` is a field
\* initialiser of the subclass, which runs only after that constructor returned
NewGitStream(service, has_info) ==
  LET g0 == [service |-> "undefined", hasInfo |-> has_info, metadata |-> <<>>,
             buffers |-> [set |-> TRUE, list |-> <<>>],
             next |-> FALSE, ready |-> FALSE, needs_flush |-> FALSE,
             source |-> FALSE, verbose |-> FALSE,
             band |-> [set |-> FALSE, queue |-> <<>>, early |-> 0],
             src_queue |-> <<>>, src_eof |-> FALSE, src_next |-> FALSE,
             src_finished |-> FALSE, out |-> <<>>, out_eof |-> FALSE,
             flush_error |-> FALSE]
      g1 == IF has_info THEN OnParsed(g0, g0.service) ELSE g0
  IN [g1 EXCEPT !.service = service]

\* the `if (results)` branch of the _write of the engine's class
ParseInto(service, metadata, message) ==
  IF service = "upload-pack" THEN UploadParse(metadata, message)
  ELSE ReceiveParse(metadata, message)

\* a variant of _write that goes on parsing after `parsed`
EngineWriteParsing(g, buffer) ==
  IF g.source
  THEN [g EXCEPT !.next = TRUE, !.src_queue = Push(g.src_queue, buffer),
                 !.metadata = ParseInto(g.service, g.metadata, buffer)]
  ELSE LET g1 == [g EXCEPT !.buffers.list = Append(g.buffers.list, buffer)]
       IN IF JsGt(pkt_length(buffer, Num(0)), 0)
          THEN [g1 EXCEPT !.metadata = ParseInto(g.service, g.metadata, buffer)]
          ELSE OnParsed([g1 EXCEPT !.next = TRUE], g1.service)

\* UploadStream._write / ReceiveStream._write(buffer, enc, next)
EngineWrite(g, buffer) ==
  IF g.source
  THEN [g EXCEPT !.next = TRUE, !.src_queue = Push(g.src_queue, buffer)]
  ELSE LET g1 == [g EXCEPT !.buffers.list = Append(g.buffers.list, buffer)]
       IN IF JsGt(pkt_length(buffer, Num(0)), 0)
          THEN [g1 EXCEPT !.metadata = ParseInto(g.service, g.metadata, buffer)]
          ELSE OnParsed([g1 EXCEPT !.next = TRUE], g1.service)

\* source._write(buffer, encoding, next): when the engine is not ready the
\* continuation is kept in source.__next
SourceWrite(g, buffer) ==
  LET n  == Len(buffer)
      g1 == IF n # 0 /\ SliceFrom(buffer, Num(n - 4)) = zero_buffer
            THEN [g EXCEPT !.needs_flush = TRUE,
                           !.out = Push(g.out, Slice(buffer, Num(0), Num(-4)))]
            ELSE IF g.needs_flush
            THEN [g EXCEPT !.needs_flush = FALSE,
                           !.out = Push(Push(g.out, zero_buffer), buffer)]
            ELSE [g EXCEPT !.out = Push(g.out, buffer)]
  IN IF g1.ready THEN g1 ELSE [g1 EXCEPT !.src_next = TRUE]

\* GitStream._read(size); size is the high-water mark, so __ready is truthy
EngineRead(g) ==
  IF g.source /\ g.src_next
  THEN [g EXCEPT !.ready = FALSE, !.src_next = FALSE]
  ELSE [g EXCEPT !.ready = TRUE]

\* flush(), the listener of the 'finish' of `source`.  With a verbose stream
\* captured, `promisify(verbose.end)()` calls end() without a receiver: the call
\* throws, the promise of flush() is rejected and nothing more is pushed
Flush(g) ==
  IF g.verbose
  THEN [g EXCEPT !.flush_error = TRUE]
  ELSE [g EXCEPT !.out = IF g.needs_flush THEN Push(g.out, zero_buffer) ELSE g.out,
                 !.out_eof = TRUE]

\* encode(message) of git-side-band-message: a pkt-line whose payload is the
\* band byte 2 and the message
Encode(message) == pkt_write_line(<<"\\2">> \o message)

\* GitStream.verbose(messages): the band stream is created on first use; its
\* _write keeps the first message and never acknowledges it
VerboseOf(g, messages) ==
  [g EXCEPT !.band = [set |-> TRUE,
                      queue |-> g.band.queue \o [i \in 1..Len(messages) |-> Encode(messages[i])],
                      \* how many of the messages came before the output of the
                      \* backend had ended
                      early |-> IF g.src_finished THEN g.band.early
                                ELSE Len(g.band.queue) + Len(messages)]]

\* a variant of the arguments that never asks for the advertisement
ProcessArgsPlain(g) == <<"--stateless-rpc">>

\* GitStream.process(repository): the arguments of the backend command
ProcessArgs(g) ==
  <<"--stateless-rpc">> \o (IF g.hasInfo THEN <<"--advertise-refs">> ELSE <<>>)

\* the call this.__command(repository, this.service, args)
CommandCall(g, repository) ==
  [repository |-> repository, command |-> g.service, args |-> ProcessArgs(g)]

(***************************************************************************)
(* The proxy (src/src/index.ts).                                           *)
(***************************************************************************)
\* match_array: the content type of the response
ContentType(type, service) ==
  CASE type = "PULL" -> "application/x-git-upload-pack-result"
    [] type = "PUSH" -> "application/x-git-receive-pack-result"
    [] type = "INFO" /\ service = "upload-pack" -> "application/x-git-upload-pack-advertisement"
    [] type = "INFO" /\ service = "receive-pack" -> "application/x-git-receive-pack-advertisement"
    [] OTHER -> "undefined"

\* HttpCodes[status]: the reason phrase, undefined for a number that is no status
HttpReason(status) ==
  CASE status = 403 -> "Forbidden"
    [] status = 404 -> "Not Found"
    [] status = 401 -> "Unauthorized"
    [] OTHER -> "undefined"

\* GitSmartProxy.create resolves: at once for an unknown service, otherwise
\* when wait() of the engine resolves, that is once `source` exists
Created == req.type = "UNKNOWN" \/ gs.source

\* a variant of accept(repo_path) without the check of the status
AcceptOfUnguarded(p, repo_path) ==
  LET p1 == [p EXCEPT !.status = "ACCEPTED", !.acc.arg = repo_path]
  IN IF req.type = "UNKNOWN" THEN p1
     ELSE IF repo_path = "" /\ req.repository = "" THEN p1
     ELSE LET path == IF repo_path = "" THEN req.repository ELSE repo_path
          IN [p1 EXCEPT !.calls = Append(p.calls, [repository |-> path,
                                                    command |-> gs.service,
                                                    args |-> <<"--stateless-rpc">>]),
                        !.acc = [pc |-> "await", arg |-> repo_path]]

\* what accept(repo_path) does before it awaits the backend command
AcceptOf(p, repo_path) ==
  IF p.status # "PENDING" THEN p
  ELSE LET p1 == [p EXCEPT !.status = "ACCEPTED", !.acc.arg = repo_path]
       IN IF req.type = "UNKNOWN" THEN p1
          ELSE IF repo_path = "" /\ req.repository = "" THEN p1
          ELSE LET path == IF repo_path = "" THEN req.repository ELSE repo_path
               IN [p1 EXCEPT !.calls = Append(p.calls, CommandCall(gs, path)),
                             !.acc = [pc |-> "await", arg |-> repo_path]]

\* accept() resumed after the command resolved and the streams were piped
AcceptedOf(p) ==
  [p EXCEPT !.acc.pc = "done",
            !.ctx = [cache |-> TRUE, type |-> req.content_type,
                     status |-> 200, body |-> "source"]]

\* a variant of reject() without the check of the status
RejectOfUnguarded(p, a) ==
  [p EXCEPT !.status = "REJECTED",
            !.ctx = [cache |-> TRUE, type |-> "text/plain",
                     status |-> IF a.status = 0 THEN 403 ELSE a.status,
                     body |-> a.reason]]

\* reject(ar1, ar2); an argument left out is "" (a reason) or 0 (a status), and
\* `first` tells which kind came first
RejectOf(p, a) ==
  IF p.status # "PENDING" THEN p
  ELSE LET \* with the number first, `reason = ar2` is followed by
           \* `reason = HttpCodes[ar1]`, whatever ar2 was
           reason0 == IF a.first = "string" THEN a.reason
                      ELSE IF a.first = "number" THEN HttpReason(a.status)
                      ELSE "undefined"
           status0 == IF a.first = "none" THEN 0 ELSE a.status
           status  == IF status0 = 0 THEN 403 ELSE status0
           reason  == IF reason0 \in {"undefined", ""} THEN HttpReason(status) ELSE reason0
       IN [p EXCEPT !.status = "REJECTED",
                    !.ctx = [cache |-> TRUE, type |-> "text/plain",
                             status |-> status, body |-> reason]]

(***************************************************************************)
(* The engine and the proxy at work: one action per handler or event.      *)
(***************************************************************************)
HasEngine == req.type # "UNKNOWN"

\* the pipe into the engine calls _write with the next frame of the body once
\* the previous write was acknowledged
EngWrite ==
  /\ HasEngine /\ io.body # <<>> /\ ~gs.next /\ ~io.finished
  /\ gs' = EngineWrite(gs, Head(io.body))
  /\ io' = [io EXCEPT !.body = Tail(io.body), !.written = io.written \o Head(io.body)]
  /\ UNCHANGED <<sep, req, px, ex, mw, cl, pk, er>>

\* the pipe ends the engine after the last frame: 'finish', whose listener
\* (registered by the 'parsed' listener) is () => source.push(null)
EngFinish ==
  /\ HasEngine /\ ~gs.hasInfo /\ io.body = <<>> /\ ~gs.next /\ ~io.finished
  /\ io' = [io EXCEPT !.finished = TRUE]
  /\ gs' = IF gs.source THEN [gs EXCEPT !.src_eof = TRUE] ELSE gs
  /\ UNCHANGED <<sep, req, px, ex, mw, cl, pk, er>>

\* the stream machinery of `source` calls source._read: when it is piped into
\* stdin, or to fill its buffer after a push
SrcRead ==
  /\ HasEngine /\ gs.source /\ ~gs.src_eof
  /\ gs.buffers.set \/ gs.next
  /\ io.attached \/ gs.src_queue # <<>>
  /\ gs' = SourceRead(gs)
  /\ UNCHANGED <<sep, req, io, px, ex, mw, cl, pk, er>>

\* a variant of the pipe in which `source` is read before stdin is attached
DeliverEarly ==
  /\ gs.src_queue # <<>>
  /\ gs' = [gs EXCEPT !.src_queue = Tail(gs.src_queue)]
  /\ io' = [io EXCEPT !.stdin = io.stdin \o Head(gs.src_queue)]
  /\ UNCHANGED <<sep, req, px, ex, mw, cl, pk, er>>

\* source.pipe(stdin): the next chunk of `source` reaches the backend
Deliver ==
  /\ io.attached /\ gs.src_queue # <<>>
  /\ gs' = [gs EXCEPT !.src_queue = Tail(gs.src_queue)]
  /\ io' = [io EXCEPT !.stdin = io.stdin \o Head(gs.src_queue)]
  /\ UNCHANGED <<sep, req, px, ex, mw, cl, pk, er>>

\* source.pipe(stdin): `source` ended and drained, stdin is ended
StdinEnd ==
  /\ io.attached /\ gs.src_queue = <<>> /\ gs.src_eof /\ ~io.stdin_eof
  /\ io' = [io EXCEPT !.stdin_eof = TRUE]
  /\ UNCHANGED <<sep, req, gs, px, ex, mw, cl, pk, er>>

\* stdout.pipe(source): the next chunk of the backend is written to `source`
\* once the previous write was acknowledged
BackendWrite ==
  /\ io.attached /\ io.backend # <<>> /\ ~gs.src_next
  /\ gs' = SourceWrite(gs, Head(io.backend))
  /\ io' = [io EXCEPT !.backend = Tail(io.backend),
                      !.produced = io.produced \o Head(io.backend)]
  /\ UNCHANGED <<sep, req, px, ex, mw, cl, pk, er>>

\* stdout.pipe(source): stdout ended, `source` finishes and flush() runs
BackendEnd ==
  /\ io.attached /\ io.backend = <<>> /\ ~gs.src_next /\ ~gs.src_finished
  /\ gs' = Flush([gs EXCEPT !.src_finished = TRUE])
  /\ UNCHANGED <<sep, req, io, px, ex, mw, cl, pk, er>>

\* the consumer of the engine (the response, or a test reading it) makes the
\* stream machinery call _read
ClientRead ==
  /\ HasEngine /\ ~gs.out_eof
  /\ EngineRead(gs) # gs
  /\ gs' = EngineRead(gs)
  /\ UNCHANGED <<sep, req, io, px, ex, mw, cl, pk, er>>

VerboseMessages == {<<"h", "i">>}

\* verbose(messages) with one message
Verbose(m) ==
  /\ HasEngine /\ Len(gs.band.queue) < MaxVerbose
  /\ gs' = VerboseOf(gs, <<m>>)
  /\ UNCHANGED <<sep, req, io, px, ex, mw, cl, pk, er>>

\* the signals of src/unnamed/part_002, in the order of their dispatch.
\* accept(repo_path) before its await: nothing for a status that is not
\* pending and for an unknown service, onError without a path to go by
AcceptDispatch(p, repo_path) ==
  IF p.status # "PENDING" \/ req.type = "UNKNOWN" THEN p.signals
  ELSE IF repo_path = "" /\ req.repository = "" THEN Append(p.signals, "onError")
  ELSE p.signals

\* accept() after source.accept() resolved: onAccept, then onFinal
AcceptedDispatch(p) == p.signals \o <<"onAccept", "onFinal">>

\* accept() when source.accept() threw: onError, and nothing else
AcceptFailDispatch(p) == Append(p.signals, "onError")

\* reject(): onReject, then onFinal
RejectDispatch(p) ==
  IF p.status # "PENDING" THEN p.signals ELSE p.signals \o <<"onReject", "onFinal">>

\* the arguments a caller passes to accept(): none, or an alternative path
AcceptArgs == {"", "alt"}

\* a call of accept(repo_path), up to its await
Accept(repo_path) ==
  /\ Created /\ px.ncalls < MaxCalls
  /\ px' = [AcceptOf(px, repo_path) EXCEPT !.ncalls = px.ncalls + 1,
                                           !.naccepts = px.naccepts + 1,
                                           !.signals = AcceptDispatch(px, repo_path)]
  /\ UNCHANGED <<sep, req, gs, io, ex, mw, cl, pk, er>>

\* the backend command resolved: process() pipes the streams and accept() sets
\* the response
AcceptResolve ==
  /\ px.acc.pc = "await"
  /\ io' = [io EXCEPT !.attached = TRUE]
  /\ px' = [AcceptedOf(px) EXCEPT !.signals = AcceptedDispatch(px)]
  /\ UNCHANGED <<sep, req, gs, ex, mw, cl, pk, er>>

\* the backend command threw or rejected: so does accept()
AcceptFail ==
  /\ px.acc.pc = "await"
  /\ px' = [px EXCEPT !.acc.pc = "failed", !.raised = px.raised + 1,
                      !.signals = AcceptFailDispatch(px)]
  /\ UNCHANGED <<sep, req, gs, io, ex, mw, cl, pk, er>>

\* the arguments a caller passes to reject()
RejectArgs ==
  {[first |-> "none", reason |-> "", status |-> 0],
   [first |-> "string", reason |-> "no", status |-> 401],
   [first |-> "number", reason |-> "", status |-> 404],
   [first |-> "number", reason |-> "no", status |-> 401]}

\* a call of reject(ar1, ar2)
Reject(a) ==
  /\ Created /\ px.ncalls < MaxCalls
  /\ px' = [RejectOf(px, a) EXCEPT !.ncalls = px.ncalls + 1,
                                    !.rej = IF px.status = "PENDING" THEN a ELSE px.rej,
                                    !.signals = RejectDispatch(px)]
  /\ UNCHANGED <<sep, req, gs, io, ex, mw, cl, pk, er>>

\* a stream of the backend, which exists from the call of the command on, or
\* `source` emits 'error'
StreamError(w) ==
  /\ HasEngine /\ Len(er.raised) < MaxErrors
  /\ IF w = "source" THEN gs.source ELSE px.acc.pc = "await" \/ io.attached
  /\ er' = OnStreamError(er, gs, io.attached, w)
  /\ UNCHANGED <<sep, req, gs, io, px, ex, mw, cl, pk>>

\* the request emits 'error' while its body is piped: the listener of
\* index.ts:71 calls context.throw(err), which throws out of the emit; the
\* request delivers nothing more and does not end
RequestError ==
  /\ HasEngine /\ ~gs.hasInfo /\ ~io.finished /\ ~er.aborted
  /\ er' = [er EXCEPT !.aborted = TRUE, !.thrown = er.thrown + 1]
  /\ UNCHANGED <<sep, req, gs, io, px, ex, mw, cl, pk>>

\* the client aborts the request: 'aborted' and 'close', which nothing listens
\* to; the request delivers nothing more and does not end
RequestAbort ==
  /\ HasEngine /\ ~gs.hasInfo /\ ~io.finished /\ ~er.aborted
  /\ er' = [er EXCEPT !.aborted = TRUE]
  /\ UNCHANGED <<sep, req, gs, io, px, ex, mw, cl, pk>>

(***************************************************************************)
(* exists(): GitStream.exists (src/src/source.ts) behind                   *)
(* GitSmartProxy.exists (src/src/index.ts).                                *)
(***************************************************************************)
MaxExOut == 2

\* no call of exists() yet
ExIdle ==
  [pc |-> "idle", by |-> "none", arg |-> "", call |-> <<>>, exists |-> TRUE,
   once |-> FALSE, out |-> <<>>, first |-> <<>>, errored |-> FALSE, result |-> "none"]

Fatal == <<"f", "a", "t", "a", "l">>

\* the chunks a backend prints when asked for the advertisement of a directory
ExistsChunks ==
  {Fatal \o <<":", " ", "n", "o">>, <<"0", "0", "0", "5", "r">>, <<"f", "a", "t">>}

ExistsOutputs == SeqsUpTo(ExistsChunks, MaxExOut)

\* stdout.once('data'): exists && (exists = 'fatal' !== chunk.slice(0, 4).toString())
ExistsOnData(e, chunk) ==
  [e EXCEPT !.exists = e.exists /\ Fatal # Slice(chunk, Num(0), Num(4)),
            !.once = FALSE,
            !.first = <<chunk>>]

\* stdout.once('error'): exists = false
ExistsOnError(e) == [e EXCEPT !.exists = FALSE, !.errored = TRUE]

\* stdout.once('end'): resolve(exists)
ExistsOnEnd(e) ==
  [e EXCEPT !.pc = "resolved", !.result = IF e.exists THEN "true" ELSE "false"]

\* GitStream.exists(repository) up to its await: the executor of the promise
\* calls the command with the one argument --advertise-refs
GitStreamExists(e, by, arg, repository) ==
  [e EXCEPT !.pc = "command", !.by = by, !.arg = arg,
            !.call = <<[repository |-> repository, command |-> gs.service,
                        args |-> <<"--advertise-refs">>]>>]

\* GitSmartProxy.exists(repo_path): false at once without a path or without an
\* engine, otherwise the answer of the engine
ProxyExists(by, repo_path) ==
  IF repo_path = "" /\ req.repository = ""
    THEN [ExIdle EXCEPT !.pc = "resolved", !.by = by, !.arg = repo_path, !.result = "false"]
  ELSE IF req.type = "UNKNOWN"
    THEN [ExIdle EXCEPT !.pc = "resolved", !.by = by, !.arg = repo_path, !.result = "false"]
  ELSE GitStreamExists(ExIdle, by, repo_path,
                       IF repo_path = "" THEN req.repository ELSE repo_path)

\* the command resolved with its streams: the listeners are set and stdout
\* is resumed
ExistsCommandResolve ==
  /\ ex.pc = "command"
  /\ \E out \in ExistsOutputs :
       ex' = [ex EXCEPT !.pc = "listening", !.once = TRUE, !.out = out]
  /\ UNCHANGED <<sep, req, gs, io, px, mw, cl, pk, er>>

\* the command threw or rejected inside the executor of the promise: nothing
\* catches it and resolve is never called
ExistsCommandThrow ==
  /\ ex.pc = "command"
  /\ ex' = [ex EXCEPT !.pc = "threw"]
  /\ UNCHANGED <<sep, req, gs, io, px, mw, cl, pk, er>>

\* stdout emits 'data'; only the first chunk finds the listener
ExistsStdoutData ==
  /\ ex.pc = "listening" /\ ex.out # <<>>
  /\ ex' = [(IF ex.once THEN ExistsOnData(ex, Head(ex.out)) ELSE ex)
              EXCEPT !.out = Tail(ex.out)]
  /\ UNCHANGED <<sep, req, gs, io, px, mw, cl, pk, er>>

\* stdout emits 'error'; the stream is then closed without 'end', or goes on
ExistsStdoutError ==
  /\ ex.pc = "listening" /\ ~ex.errored
  /\ \E closes \in BOOLEAN :
       ex' = [ExistsOnError(ex) EXCEPT !.pc = IF closes THEN "closed" ELSE "listening"]
  /\ UNCHANGED <<sep, req, gs, io, px, mw, cl, pk, er>>

\* stdout emits 'end' after its last chunk
ExistsStdoutEnd ==
  /\ ex.pc = "listening" /\ ex.out = <<>>
  /\ ex' = ExistsOnEnd(ex)
  /\ UNCHANGED <<sep, req, gs, io, px, mw, cl, pk, er>>

(***************************************************************************)
(* The middleware (src/src/index.ts, GitSmartProxy.middleware).            *)
(***************************************************************************)
\* no middleware: the proxy was made by create() and is used directly
MwOff == [pc |-> "off", auto_deploy |-> "undefined", deployed |-> FALSE]

\* the option auto_deploy: left out, true or false
AutoDeploy == {"undefined", "true", "false"}

\* the paths a handler passes to exists(): none, or an alternative path
ExistsArgs == {"", "alt"}

\* a caller that holds the proxy of create() calls proxy.exists(repo_path)
Exists(repo_path) ==
  /\ mw.pc = "off" /\ Created /\ ex.pc = "idle"
  /\ ex' = ProxyExists("caller", repo_path)
  /\ UNCHANGED <<sep, req, gs, io, px, mw, cl, pk, er>>

\* a handler downstream is at work: next() has not returned
Downstream == mw.pc = "chain"

\* `await next()` returns: without auto_deploy or with the status taken there
\* is nothing left to do, otherwise proxy.exists() is awaited
MwReturn ==
  /\ Downstream /\ Created
  /\ IF mw.auto_deploy # "undefined" /\ px.status = "PENDING"
       THEN /\ mw' = [mw EXCEPT !.pc = "exists"]
            /\ ex' = ProxyExists("middleware", "")
       ELSE /\ mw' = [mw EXCEPT !.pc = "done"]
            /\ ex' = ex
  /\ UNCHANGED <<sep, req, gs, io, px, cl, pk, er>>

\* reject(ar1, ar2) called by the middleware
MwReject(p, a) ==
  [RejectOf(p, a) EXCEPT !.rej = IF p.status = "PENDING" THEN a ELSE p.rej,
                         !.signals = RejectDispatch(p)]

\* the end of the middleware once exists() has answered
MwDeployOf(p, found) ==
  IF ~found THEN MwReject(p, [first |-> "number", reason |-> "", status |-> 404])
  ELSE IF req.type # "UNKNOWN" THEN MwReject(p, [first |-> "none", reason |-> "", status |-> 0])
  ELSE IF mw.auto_deploy = "true" THEN AcceptOf(p, "")
  ELSE MwReject(p, [first |-> "none", reason |-> "", status |-> 0])

\* proxy.exists() answered: the middleware rejects or accepts and returns
MwDeploy ==
  /\ mw.pc = "exists" /\ ex.pc = "resolved"
  /\ px' = MwDeployOf(px, ex.result = "true")
  /\ mw' = [mw EXCEPT !.pc = "done", !.deployed = TRUE]
  /\ UNCHANGED <<sep, req, gs, io, ex, cl, pk, er>>

(***************************************************************************)
(* Classification: match() and get_service (src/src/index.ts,              *)
(* src/unnamed/part_003).  Paths and service names are strings of          *)
(* characters; a value that may be undefined is a sequence of at most one. *)
(***************************************************************************)
GitDash == <<"g", "i", "t", "-">>

UploadPackName == <<"u", "p", "l", "o", "a", "d", "-", "p", "a", "c", "k">>

ReceivePackName == <<"r", "e", "c", "e", "i", "v", "e", "-", "p", "a", "c", "k">>

\* string.startsWith(prefix)
StartsWith(s, prefix) == Len(prefix) <= Len(s) /\ SubSeq(s, 1, Len(prefix)) = prefix

\* string.slice(start) for a start that is not negative
StrSliceFrom(s, start) == IF start >= Len(s) THEN <<>> ELSE SubSeq(s, start + 1, Len(s))

\* a variant of get_service that takes any name after `git-`
get_service_any(input) ==
  IF input = <<>> \/ input[1] = <<>> \/ ~StartsWith(input[1], GitDash) THEN "undefined"
  ELSE "upload-pack"

\* get_service(input): the name after `git-` when it is one of valid_services
get_service(input) ==
  IF input = <<>> \/ input[1] = <<>> \/ ~StartsWith(input[1], GitDash) THEN "undefined"
  ELSE LET service == StrSliceFrom(input[1], 4)
       IN IF service = UploadPackName THEN "upload-pack"
          ELSE IF service = ReceivePackName THEN "receive-pack"
          ELSE "undefined"

\* match_array, in the order of the map: the type, the content type of the
\* response and the text the pattern ends with
match_array ==
  <<[type |-> "PULL", suffix |-> <<"/">> \o GitDash \o UploadPackName],
    [type |-> "PUSH", suffix |-> <<"/">> \o GitDash \o ReceivePackName],
    [type |-> "INFO", suffix |-> <<"/", "i", "n", "f", "o", "/", "r", "e", "f", "s">>]>>

\* /^\/?(.*?)<suffix>$/.exec(path): the optional slash is tried before its
\* absence, the group takes as few characters as will do and no line
\* terminator; the result is results[1] in a sequence, or nothing
RegExec(suffix, path) ==
  LET starts == IF path # <<>> /\ Head(path) = "/" THEN <<1, 0>> ELSE <<0>>
      Fits(s, n) ==
        /\ s + n + Len(suffix) = Len(path)
        /\ SubSeq(path, s + n + 1, Len(path)) = suffix
        /\ \A i \in (s + 1)..(s + n) : ~IsLineTerminator(path[i])
      Lengths(s) == {n \in 0..Len(path) : Fits(s, n)}
      Least(S) == CHOOSE n \in S : \A k \in S : n <= k
      Tried == {i \in 1..Len(starts) : Lengths(starts[i]) # {}}
  IN IF Tried = {} THEN <<>>
     ELSE LET s == starts[Least(Tried)]
          IN <<SubSeq(path, s + 1, s + Least(Lengths(s)))>>

\* `application/x-git-${service}-request`
RequestType(service) ==
  CASE service = "upload-pack" -> "application/x-git-upload-pack-request"
    [] service = "receive-pack" -> "application/x-git-receive-pack-request"
    [] OTHER -> "application/x-git-undefined-request"

\* what match() returns when nothing fits in index.ts (nothing at all) and in
\* part_003 (the unknown type)
Undefined == [type |-> "undefined", service |-> "undefined", repository |-> <<>>,
              content_type |-> "undefined"]

Unknown == [type |-> "UNKNOWN", service |-> "undefined", repository |-> <<>>,
            content_type |-> "undefined"]

\* the body of the loop of match() for the entry i of match_array whose
\* pattern fits: the classification, or `none` where the code leaves the loop
MatchEntry(c, i, none) ==
  LET type    == match_array[i].type
      results == RegExec(match_array[i].suffix, c.path)
      isInfo  == type = "INFO"
      method  == IF isInfo THEN "GET" ELSE "POST"
      service == get_service(IF isInfo THEN c.query
                             ELSE <<StrSliceFrom(c.path, Len(results[1]) + 1)>>)
  IN IF method # c.method THEN none
     ELSE IF service = "undefined" THEN none
     ELSE IF ~isInfo /\ c.content_type # RequestType(service) THEN none
     ELSE [type |-> type, service |-> service, repository |-> results[1],
           content_type |-> ContentType(type, service)]

\* the loop over match_array: the first entry whose pattern fits decides
MatchLoop(c, none) ==
  LET fits == {i \in 1..Len(match_array) : RegExec(match_array[i].suffix, c.path) # <<>>}
  IN IF fits = {} THEN none
     ELSE MatchEntry(c, CHOOSE i \in fits : \A k \in fits : i <= k, none)

\* GitSmartProxy.match() of src/src/index.ts: `return` without a value
match(c) == MatchLoop(c, Undefined)

\* GitSmartProxy.match() of src/unnamed/part_003: `break`, then the unknown type
match_or_unknown(c) == MatchLoop(c, Unknown)

\* no request classified
ClNone ==
  [pc |-> "none", method |-> "", path |-> <<>>, query |-> <<>>,
   content_type |-> "", result |-> Undefined, threw |-> FALSE]

\* new GitSmartProxy(context, command) of src/src/index.ts: the result of
\* match() is destructured, which throws when there is none
Construct ==
  /\ cl.pc = "request"
  /\ cl' = [cl EXCEPT !.pc = "index", !.result = match(cl),
                      !.threw = match(cl) = Undefined]
  /\ UNCHANGED <<sep, req, gs, io, px, ex, mw, pk, er>>

\* new GitSmartProxy(context, command) of src/unnamed/part_003
ConstructOrUnknown ==
  /\ cl.pc = "request"
  /\ cl' = [cl EXCEPT !.pc = "part_003", !.result = match_or_unknown(cl)]
  /\ UNCHANGED <<sep, req, gs, io, px, ex, mw, pk, er>>

\* the requests that arrive
ClMethods == {"GET", "POST", "PUT"}

ClRepositories == {<<>>, <<"r">>, <<"a", "/", "b">>}

ClSuffixes ==
  {match_array[i].suffix : i \in 1..Len(match_array)} \cup {<<"/", "H", "E", "A", "D">>}

ClQueries ==
  {<<>>, <<GitDash \o UploadPackName>>, <<GitDash \o ReceivePackName>>,
   <<UploadPackName>>, <<GitDash \o <<"x">>>>}

ClContentTypes ==
  {"", "text/plain", RequestType("upload-pack"), RequestType("receive-pack")}

\* the path of a request for the repository r: /r and the suffix
PathOf(r, suffix) == <<"/">> \o r \o suffix

\* the paths that arrive: those of the repositories, and the bare suffixes
ClPaths ==
  {PathOf(r, x) : r \in ClRepositories, x \in ClSuffixes} \cup ClSuffixes

(***************************************************************************)
(* Requests.                                                               *)
(***************************************************************************)
IdOf(c) == [i \in 1..IdLen |-> c]

\* the lines a fetch request is made of; `caps` marks a want line that carries
\* capabilities, which the pattern of upload-pack does not match
UploadLines ==
  {[kind |-> <<"w", "a", "n", "t">>, id |-> IdOf("a"), caps |-> FALSE],
   [kind |-> <<"w", "a", "n", "t">>, id |-> IdOf("b"), caps |-> FALSE],
   [kind |-> <<"h", "a", "v", "e">>, id |-> IdOf("c"), caps |-> FALSE],
   [kind |-> <<"w", "a", "n", "t">>, id |-> IdOf("d"), caps |-> TRUE]}

PlainLines == {l \in UploadLines : ~l.caps}

UploadFrame(l) ==
  pkt_write_line(l.kind \o <<" ">> \o l.id
                 \o (IF l.caps THEN <<" ", "o", "f", "s">> ELSE <<>>) \o <<LF>>)

\* what ends the lines: a flush packet, or bytes that are no pkt-line
Terminators == {FlushPkt, <<"P", "A", "C", "K">>}

DoneFrame == pkt_write_line(<<"d", "o", "n", "e", LF>>)

\* the negotiation of a fetch: the lines of `have` come after the flush
\* packet that ends the lines of `want`
HaveFrame == UploadFrame([kind |-> <<"h", "a", "v", "e">>, id |-> IdOf("c"), caps |-> FALSE])

WantLine == [kind |-> <<"w", "a", "n", "t">>, id |-> IdOf("a"), caps |-> FALSE]

\* a body that ends with no terminator at all has the term <<>>
UploadPlans ==
  [lines : SeqsUpTo(PlainLines, MaxFrames), term : {FlushPkt}, tail : {<<DoneFrame>>}]
  \cup [lines : SeqsUpTo(UploadLines, 1), term : Terminators, tail : {<<>>}]
  \cup [lines : {<<WantLine>>}, term : {FlushPkt}, tail : {<<HaveFrame>>}]
  \cup [lines : {<<>>, <<WantLine>>}, term : {<<>>}, tail : {<<>>}]

UploadBody(plan) ==
  [i \in 1..Len(plan.lines) |-> UploadFrame(plan.lines[i])]
    \o (IF plan.term = <<>> THEN <<>> ELSE <<plan.term>>) \o plan.tail

\* the commands a push request starts with
ReceiveCommands ==
  {[old |-> IdOf("0"), new |-> IdOf("a"), type |-> <<"h", "e", "a", "d", "s">>,
    name |-> <<"m", "a", "i", "n", "t">>,
    caps |-> <<" ", "r", "e", "p", "o", "r", "t", "-", "s", "t", "a", "t", "u", "s">>],
   [old |-> IdOf("a"), new |-> IdOf("b"), type |-> <<"t", "a", "g", "s">>,
    name |-> <<"v", "1">>, caps |-> <<>>],
   [old |-> IdOf("b"), new |-> IdOf("c"), type |-> <<"h", "e", "a", "d", "s">>,
    name |-> <<"f", "/", "x">>,
    caps |-> <<" ", "a", "b", " ", "c", "d">>]}

RefPath(cmd) == <<"r", "e", "f", "s", "/">> \o cmd.type \o <<"/">> \o cmd.name

ReceiveFrame(cmd) ==
  pkt_write_line(cmd.old \o <<" ">> \o cmd.new \o <<" ">> \o RefPath(cmd)
                 \o <<NUL>> \o cmd.caps \o <<LF>>)

\* chunks of pack data; some look like a flush packet at their end
PackChunks == {<<LF, "P", "A", "C", "K">>, <<"P", "0", "0", "0", "0">>}

ReceivePlans ==
  [cmd : ReceiveCommands, pack : {<<>>}]
  \cup [cmd : {c \in ReceiveCommands : c.caps = <<>>}, pack : SeqsUpTo(PackChunks, MaxPack)]

ReceiveBody(plan) == <<ReceiveFrame(plan.cmd), FlushPkt>> \o plan.pack

\* chunks of backend output; some end in the four bytes of a flush packet
OutChunks == {<<"0", "0", "0", "5", "r">>, <<"0", "0", "0", "5", "r", "0", "0", "0", "0">>,
              FlushPkt}

BackendOutputs == SeqsUpTo(OutChunks, MaxOut)

Repositories == {"", "repo"}

Services == {"upload-pack", "receive-pack"}

NoPlan == [lines |-> <<>>]

\* the classified requests with their bodies and the output their backend
\* would give
Requests ==
  {[type |-> "UNKNOWN", service |-> "undefined", repository |-> r, plan |-> NoPlan,
    body |-> <<>>, backend |-> <<>>] : r \in Repositories}
  \cup {[type |-> "INFO", service |-> s, repository |-> "repo", plan |-> NoPlan,
         body |-> <<>>, backend |-> b] : s \in Services, b \in BackendOutputs}
  \cup {[type |-> "INFO", service |-> s, repository |-> "", plan |-> NoPlan,
         body |-> <<>>, backend |-> <<FlushPkt>>] : s \in Services}
  \cup {[type |-> "PULL", service |-> "upload-pack", repository |-> "repo", plan |-> p,
         body |-> UploadBody(p), backend |-> <<FlushPkt>>] : p \in UploadPlans}
  \cup {[type |-> "PUSH", service |-> "receive-pack", repository |-> "repo", plan |-> p,
         body |-> ReceiveBody(p), backend |-> <<<<"0", "0", "0", "5", "r">>>>] :
          p \in ReceivePlans}

\* new GitSmartProxy(...): the engine of the request (none for an unknown
\* service; the record is then never used)
Init ==
  /\ sep = SepIdle
  /\ \E q \in Requests :
       /\ req = [type |-> q.type, service |-> q.service, repository |-> q.repository,
                 content_type |-> ContentType(q.type, q.service), plan |-> q.plan]
       /\ gs = NewGitStream(q.service, q.type = "INFO")
       /\ io = [body |-> q.body, written |-> <<>>, finished |-> FALSE,
                backend |-> q.backend, produced |-> <<>>, attached |-> FALSE,
                stdin |-> <<>>, stdin_eof |-> FALSE]
  /\ px = [status |-> "PENDING",
           ctx |-> [cache |-> FALSE, type |-> "", status |-> 404, body |-> "undefined"],
           calls |-> <<>>, acc |-> [pc |-> "idle", arg |-> ""],
           ncalls |-> 0, naccepts |-> 0, raised |-> 0, signals |-> <<>>,
           rej |-> [first |-> "none", reason |-> "", status |-> 0]]
  /\ pk = PkIdle
  /\ er = ErIdle
  /\ ex = ExIdle
  /\ mw = MwOff
  /\ cl = ClNone

Next ==
  \/ EngWrite
  \/ EngFinish
  \/ SrcRead
  \/ Deliver
  \/ StdinEnd
  \/ BackendWrite
  \/ BackendEnd
  \/ ClientRead
  \/ \E m \in VerboseMessages : Verbose(m)
  \/ \E p \in AcceptArgs : Accept(p)
  \/ AcceptResolve
  \/ AcceptFail
  \/ \E a \in RejectArgs : Reject(a)

Spec == Init /\ [][Next]_vars

(***************************************************************************)
(* The segmenter alone: every input is run whole, then split.              *)
(***************************************************************************)
SepInit ==
  /\ \E D \in SepInputs : \E cs \in Chunkings(D) :
       sep = [r \in Runs |-> IF r = "whole" THEN SepStart(<<D>>) ELSE SepStart(cs)]
  /\ req = [type |-> "UNKNOWN", service |-> "undefined", repository |-> "",
            content_type |-> "undefined", plan |-> NoPlan]
  /\ gs = NewGitStream("undefined", FALSE)
  /\ io = [body |-> <<>>, written |-> <<>>, finished |-> FALSE,
           backend |-> <<>>, produced |-> <<>>, attached |-> FALSE,
           stdin |-> <<>>, stdin_eof |-> FALSE]
  /\ px = [status |-> "PENDING",
           ctx |-> [cache |-> FALSE, type |-> "", status |-> 404, body |-> "undefined"],
           calls |-> <<>>, acc |-> [pc |-> "idle", arg |-> ""],
           ncalls |-> 0, naccepts |-> 0, raised |-> 0, signals |-> <<>>,
           rej |-> [first |-> "none", reason |-> "", status |-> 0]]
  /\ pk = PkIdle
  /\ er = ErIdle
  /\ ex = ExIdle
  /\ mw = MwOff
  /\ cl = ClNone

\* the run "whole" is taken as far as it goes before the run "split" starts:
\* the two runs share nothing, so their interleaving adds no outcome
SepNext ==
  \/ SepTransform("whole")
  \/ SepNextTick("whole")
  \/ SepEnd("whole")
  \/ SepStopped("whole") /\ SepTransform("split")
  \/ SepStopped("whole") /\ SepNextTick("split")
  \/ SepStopped("whole") /\ SepEnd("split")

SpecSeg == SepInit /\ [][SepNext]_vars

(***************************************************************************)
(* The proxy behind its middleware, with exists().                         *)
(***************************************************************************)
\* the requests the middleware is given: an unknown one, the advertisement,
\* and a fetch whose body is parsed before create() resolves
MwRequests ==
  {q \in Requests : q.type \in {"UNKNOWN", "INFO"} /\ q.backend \in {<<>>, <<FlushPkt>>}}
  \cup {q \in Requests : q.type = "PULL" /\ q.plan.lines = <<>>}

MwInit ==
  /\ sep = SepIdle
  /\ \E q \in MwRequests :
       /\ req = [type |-> q.type, service |-> q.service, repository |-> q.repository,
                 content_type |-> ContentType(q.type, q.service), plan |-> q.plan]
       /\ gs = NewGitStream(q.service, q.type = "INFO")
       /\ io = [body |-> q.body, written |-> <<>>, finished |-> FALSE,
                backend |-> q.backend, produced |-> <<>>, attached |-> FALSE,
                stdin |-> <<>>, stdin_eof |-> FALSE]
  /\ px = [status |-> "PENDING",
           ctx |-> [cache |-> FALSE, type |-> "", status |-> 404, body |-> "undefined"],
           calls |-> <<>>, acc |-> [pc |-> "idle", arg |-> ""],
           ncalls |-> 0, naccepts |-> 0, raised |-> 0, signals |-> <<>>,
           rej |-> [first |-> "none", reason |-> "", status |-> 0]]
  /\ pk = PkIdle
  /\ er = ErIdle
  /\ ex = ExIdle
  /\ \E a \in AutoDeploy : mw = [pc |-> "chain", auto_deploy |-> a, deployed |-> FALSE]
  /\ cl = ClNone

MwNext ==
  \/ EngWrite
  \/ \E p \in AcceptArgs : Downstream /\ Accept(p)
  \/ AcceptResolve
  \/ AcceptFail
  \/ \E a \in RejectArgs : Downstream /\ Reject(a)
  \/ MwReturn
  \/ ExistsCommandResolve
  \/ ExistsCommandThrow
  \/ ExistsStdoutData
  \/ ExistsStdoutError
  \/ ExistsStdoutEnd
  \/ MwDeploy

SpecMw == MwInit /\ [][MwNext]_vars

(***************************************************************************)
(* exists() called on a proxy that create() returned.                      *)
(***************************************************************************)
ExInit ==
  /\ sep = SepIdle
  /\ \E q \in MwRequests :
       /\ req = [type |-> q.type, service |-> q.service, repository |-> q.repository,
                 content_type |-> ContentType(q.type, q.service), plan |-> q.plan]
       /\ gs = NewGitStream(q.service, q.type = "INFO")
       /\ io = [body |-> q.body, written |-> <<>>, finished |-> FALSE,
                backend |-> q.backend, produced |-> <<>>, attached |-> FALSE,
                stdin |-> <<>>, stdin_eof |-> FALSE]
  /\ px = [status |-> "PENDING",
           ctx |-> [cache |-> FALSE, type |-> "", status |-> 404, body |-> "undefined"],
           calls |-> <<>>, acc |-> [pc |-> "idle", arg |-> ""],
           ncalls |-> 0, naccepts |-> 0, raised |-> 0, signals |-> <<>>,
           rej |-> [first |-> "none", reason |-> "", status |-> 0]]
  /\ pk = PkIdle
  /\ er = ErIdle
  /\ ex = ExIdle
  /\ mw = MwOff
  /\ cl = ClNone

ExNext ==
  \/ EngWrite
  \/ \E p \in ExistsArgs : Exists(p)
  \/ ExistsCommandResolve
  \/ ExistsCommandThrow
  \/ ExistsStdoutData
  \/ ExistsStdoutError
  \/ ExistsStdoutEnd

SpecEx == ExInit /\ [][ExNext]_vars

(***************************************************************************)
(* Classification of the requests that arrive.                             *)
(***************************************************************************)
ClInit ==
  /\ sep = SepIdle
  /\ req = [type |-> "UNKNOWN", service |-> "undefined", repository |-> "",
            content_type |-> "undefined", plan |-> NoPlan]
  /\ gs = NewGitStream("undefined", FALSE)
  /\ io = [body |-> <<>>, written |-> <<>>, finished |-> FALSE,
           backend |-> <<>>, produced |-> <<>>, attached |-> FALSE,
           stdin |-> <<>>, stdin_eof |-> FALSE]
  /\ px = [status |-> "PENDING",
           ctx |-> [cache |-> FALSE, type |-> "", status |-> 404, body |-> "undefined"],
           calls |-> <<>>, acc |-> [pc |-> "idle", arg |-> ""],
           ncalls |-> 0, naccepts |-> 0, raised |-> 0, signals |-> <<>>,
           rej |-> [first |-> "none", reason |-> "", status |-> 0]]
  /\ pk = PkIdle
  /\ er = ErIdle
  /\ ex = ExIdle
  /\ mw = MwOff
  /\ \E m \in ClMethods, p \in ClPaths, q \in ClQueries, t \in ClContentTypes :
       cl = [ClNone EXCEPT !.pc = "request", !.method = m, !.path = p,
                           !.query = q, !.content_type = t]

ClNext ==
  \/ Construct
  \/ ConstructOrUnknown

SpecCl == ClInit /\ [][ClNext]_vars

(***************************************************************************)
(* The engine with the errors of the streams around it.                    *)
(***************************************************************************)
ErRequests ==
  {q \in Requests :
     /\ q.repository = "repo"
     /\ q.backend = <<FlushPkt>> \/ q.type = "PUSH"
     /\ q.type = "PULL" => q.plan = [lines |-> <<WantLine>>, term |-> FlushPkt,
                                     tail |-> <<HaveFrame>>]
     /\ q.type = "PUSH" => q.plan.pack = <<>> /\ q.plan.cmd.caps = <<>>}

ErInit ==
  /\ sep = SepIdle
  /\ \E q \in ErRequests :
       /\ req = [type |-> q.type, service |-> q.service, repository |-> q.repository,
                 content_type |-> ContentType(q.type, q.service), plan |-> q.plan]
       /\ gs = NewGitStream(q.service, q.type = "INFO")
       /\ io = [body |-> q.body, written |-> <<>>, finished |-> FALSE,
                backend |-> q.backend, produced |-> <<>>, attached |-> FALSE,
                stdin |-> <<>>, stdin_eof |-> FALSE]
  /\ px = [status |-> "PENDING",
           ctx |-> [cache |-> FALSE, type |-> "", status |-> 404, body |-> "undefined"],
           calls |-> <<>>, acc |-> [pc |-> "idle", arg |-> ""],
           ncalls |-> 0, naccepts |-> 0, raised |-> 0, signals |-> <<>>,
           rej |-> [first |-> "none", reason |-> "", status |-> 0]]
  /\ pk = PkIdle
  /\ er = ErIdle
  /\ ex = ExIdle
  /\ mw = MwOff
  /\ cl = ClNone

\* a request that emitted 'error' or 'aborted' writes nothing more to the
\* engine and does not end it
ErNext ==
  \/ ~er.aborted /\ EngWrite
  \/ ~er.aborted /\ EngFinish
  \/ SrcRead
  \/ Deliver
  \/ StdinEnd
  \/ Accept("")
  \/ AcceptResolve
  \/ \E w \in ErrorOrigins : StreamError(w)
  \/ RequestError
  \/ RequestAbort

SpecErr == ErInit /\ [][ErNext]_vars

(***************************************************************************)
(* The codec alone: every payload is written as a line and read back.      *)
(***************************************************************************)
PkPayloads ==
  SeqsUpTo(SepAlphabet, MaxPayload) \cup {[i \in 1..n |-> "x"] : n \in EdgeLengths}

PkInit ==
  /\ sep = SepIdle
  /\ req = [type |-> "UNKNOWN", service |-> "undefined", repository |-> "",
            content_type |-> "undefined", plan |-> NoPlan]
  /\ gs = NewGitStream("undefined", FALSE)
  /\ io = [body |-> <<>>, written |-> <<>>, finished |-> FALSE,
           backend |-> <<>>, produced |-> <<>>, attached |-> FALSE,
           stdin |-> <<>>, stdin_eof |-> FALSE]
  /\ px = [status |-> "PENDING",
           ctx |-> [cache |-> FALSE, type |-> "", status |-> 404, body |-> "undefined"],
           calls |-> <<>>, acc |-> [pc |-> "idle", arg |-> ""],
           ncalls |-> 0, naccepts |-> 0, raised |-> 0, signals |-> <<>>,
           rej |-> [first |-> "none", reason |-> "", status |-> 0]]
  /\ er = ErIdle
  /\ ex = ExIdle
  /\ mw = MwOff
  /\ cl = ClNone
  /\ \E input \in PkPayloads : pk = [PkIdle EXCEPT !.pc = "input", !.input = input]

PkNext ==
  \/ WriteLine
  \/ ReadLength

SpecPk == PkInit /\ [][PkNext]_vars

(***************************************************************************)
(* Properties of the segmenter.                                            *)
(***************************************************************************)
IsPrefix(a, b) == Len(a) <= Len(b) /\ SubSeq(b, 1, Len(a)) = a

Comparable(a, b) == IsPrefix(a, b) \/ IsPrefix(b, a)

\* the bytes the two runs are given
SepData == Concat(sep["whole"].input)

NotFramed == << <<>> >>

RECURSIVE FramesOf(_)
\* the pkt-line frames D is a concatenation of: four lower-case digits of radix
\* 16 that count themselves, 0000 being the flush packet; NotFramed is appended
\* where D stops being such a concatenation
FramesOf(D) ==
  IF D = <<>> THEN <<>>
  ELSE IF Len(D) < 4 \/ ~AllLowerHex(SubSeq(D, 1, 4)) THEN NotFramed
  ELSE LET v    == HexValue(SubSeq(D, 1, 4), 0)
           size == IF v = 0 THEN 4 ELSE v
       IN IF size < 4 \/ size > Len(D) THEN NotFramed
          ELSE <<SubSeq(D, 1, size)>> \o FramesOf(SubSeq(D, size + 1, Len(D)))

WellFormed(D) == D # <<>> /\ FramesOf(D)[Len(FramesOf(D))] # <<>>

\* C1: the frames emitted for the chunks C1..Cn of D are the frames emitted for
\* D written as one chunk: at no time does one run emit what the other does
\* not, and when both runs are through they have emitted the same sequence
C1_ChunkBoundaryInvariance ==
  /\ Comparable(sep["whole"].out, sep["split"].out)
  /\ SepDone("whole") /\ SepDone("split") => sep["whole"].out = sep["split"].out

\* C2: for an input made of well-formed frames, in any chunking, what is
\* emitted is the frames of the input, each once and in order: always a prefix
\* of them, and all of them once every chunk was taken
C2_FramesOnceInOrder ==
  WellFormed(SepData) =>
    \A r \in Runs :
      /\ IsPrefix(sep[r].out, FramesOf(SepData))
      /\ SepDone(r) => sep[r].out = FramesOf(SepData)

(***************************************************************************)
(* Properties of the engine.                                               *)
(***************************************************************************)
Range(f) == {f[i] : i \in DOMAIN f}

\* the list metadata holds under `key`; a list never pushed to is absent
MetaList(key) == IF key \in DOMAIN gs.metadata THEN gs.metadata[key] ELSE <<>>

RECURSIVE IdsOf(_, _)
\* the ids of the lines of one kind, in the order of the lines
IdsOf(lines, kind) ==
  IF lines = <<>> THEN <<>>
  ELSE (IF Head(lines).kind = kind THEN <<Head(lines).id>> ELSE <<>>)
       \o IdsOf(Tail(lines), kind)

RECURSIVE Words(_, _)
\* the pieces of s between its spaces, `cur` being the piece read so far
Words(s, cur) ==
  IF s = <<>> THEN (IF cur = <<>> THEN <<>> ELSE <<cur>>)
  ELSE IF Head(s) = " "
  THEN (IF cur = <<>> THEN <<>> ELSE <<cur>>) \o Words(Tail(s), <<>>)
  ELSE Words(Tail(s), Append(cur, Head(s)))

\* C3: for a push request (command, flush packet, pack bytes) the bytes that
\* reach the stdin of the backend are the bytes written to the engine, in
\* order: never anything else, all of them once the replay and the queue are
\* through, and the whole body when stdin is ended
C3_StdinIsWhatWasWritten ==
  req.type = "PUSH" =>
    /\ IsPrefix(io.stdin, io.written)
    /\ io.attached /\ ~gs.buffers.set /\ gs.src_queue = <<>> => io.stdin = io.written
    /\ io.stdin_eof => io.stdin = Concat(ReceiveBody(req.plan))

C3_Witness ==
  /\ req.type = "PUSH" /\ Len(req.plan.pack) = MaxPack
  /\ io.stdin_eof
  /\ io.stdin = Concat(ReceiveBody(req.plan))

\* C4: for a fetch request made of plain want and have lines and a flush
\* packet, once `parsed` has fired metadata.want holds the wanted ids and
\* metadata.have the had ids, each in the order of the lines
C4_WantHaveInOrder ==
  /\ req.type = "PULL" /\ req.plan.term = FlushPkt
  /\ \A i \in 1..Len(req.plan.lines) : ~req.plan.lines[i].caps
  /\ gs.source
  => /\ MetaList("want") = IdsOf(req.plan.lines, <<"w", "a", "n", "t">>)
     /\ MetaList("have") = IdsOf(req.plan.lines, <<"h", "a", "v", "e">>)

C4_Witness ==
  /\ req.type = "PULL" /\ req.plan.term = FlushPkt /\ gs.source
  /\ Len(req.plan.lines) = MaxFrames
  /\ MetaList("want") = <<IdOf("b"), IdOf("a")>>

\* C5: for a push request whose first frame is `<old> <new> <refpath>\0<caps>`,
\* once `parsed` has fired metadata holds the two commits, the full ref path,
\* the ref name after the segment of the type, and the capabilities as the
\* pieces of the capability segment between spaces
C5_ReceiveMetadata ==
  req.type = "PUSH" /\ gs.source =>
    /\ {"old_commit", "new_commit", "ref", "refname", "capabilities"}
         \subseteq DOMAIN gs.metadata
    /\ gs.metadata["old_commit"] = req.plan.cmd.old
    /\ gs.metadata["new_commit"] = req.plan.cmd.new
    /\ gs.metadata["ref"] = RefPath(req.plan.cmd)
    /\ gs.metadata["refname"] = req.plan.cmd.name
    /\ gs.metadata["capabilities"] = Words(req.plan.cmd.caps, <<>>)

C5_Witness ==
  /\ req.type = "PUSH" /\ gs.source
  /\ "capabilities" \in DOMAIN gs.metadata
  /\ gs.metadata["capabilities"] = <<<<"a", "b">>, <<"c", "d">>>>
  /\ gs.metadata["refname"] = <<"f", "/", "x">>

\* C6: for an info/refs request for upload-pack, what was read from the engine
\* when it ended starts with the bytes `001e# service=git-upload-pack\n0000`
C6_AdvertisementHeader ==
  req.type = "INFO" /\ req.service = "upload-pack" /\ gs.out_eof =>
    IsPrefix(Headers("upload-pack"), Concat(gs.out))

\* C7: for an engine without request input, what was read from the engine when
\* it ended is the output of the backend, byte for byte
C7_OutputIsBackendOutput ==
  req.type = "INFO" /\ gs.out_eof => Concat(gs.out) = io.produced

(***************************************************************************)
(* Properties of the proxy.                                                *)
(***************************************************************************)
\* the path the accept() that took the status has to go by: its argument, or
\* the repository of the request
AcceptPath == IF px.acc.arg = "" THEN req.repository ELSE px.acc.arg

C9_NoChangeAfterPending ==
  [][px.status # "PENDING" =>
       /\ px'.status = px.status
       /\ px'.ncalls # px.ncalls =>
            /\ px'.ctx = px.ctx
            /\ px'.calls = px.calls
            /\ px'.acc = px.acc
            /\ px'.raised = px.raised]_vars

C9_Witness ==
  /\ px.status = "ACCEPTED" /\ px.acc.pc = "done"
  /\ px.ncalls = MaxCalls /\ px.naccepts = 1
  /\ px.ctx.status = 200

\* what C10 says of a proxy accepted for a known service
AcceptedAsSaid ==
  /\ Len(px.calls) = 1
  /\ px.calls[1].repository = AcceptPath
  /\ px.calls[1].command = req.service
  /\ "--stateless-rpc" \in Range(px.calls[1].args)
  /\ ("--advertise-refs" \in Range(px.calls[1].args)) <=> (req.type = "INFO")
  /\ px.acc.pc # "idle"
  /\ px.acc.pc = "done" =>
       /\ io.attached
       /\ px.ctx.status = 200
       /\ px.ctx.type = req.content_type
       /\ px.ctx.body = "source"

SuppliedStatus == IF px.rej.status = 0 THEN 403 ELSE px.rej.status

SuppliedReason == IF px.rej.reason = "" THEN HttpReason(SuppliedStatus) ELSE px.rej.reason

\* C11: the reject() that took the status leaves a plain-text response with
\* the status it was given (403 without one) and as body the reason it was
\* given (the reason phrase of the status without one), in either order of
\* the arguments
C11_RejectAsSupplied ==
  px.status = "REJECTED" =>
    /\ px.ctx.type = "text/plain"
    /\ px.ctx.status = SuppliedStatus
    /\ px.ctx.body = SuppliedReason

\* nothing more will be heard of the call of exists(): it resolved, or the
\* command threw, or stdout was closed without 'end'
ExistsOver == ex.pc \in {"resolved", "threw", "closed"}

\* C12: exists() always settles with a boolean: once the call is over it has
\* resolved to true or false, and to false when the backend command threw or
\* rejected or when stdout emitted an error before ending.
C12_ExistsSettlesFalseOnFailure ==
  ExistsOver =>
    /\ ex.result \in {"true", "false"}
    /\ (ex.pc = "threw" \/ ex.errored) => ex.result = "false"

\* C13: exists() resolves to false whenever the first chunk of the output
\* begins with the text `fatal`, and to true when the first chunk begins
\* otherwise and the output ends without error.
C13_FatalPrefixDecides ==
  (ex.pc = "resolved" /\ ex.first # <<>>) =>
    IF IsPrefix(Fatal, ex.first[1]) THEN ex.result = "false"
    ELSE ~ex.errored => ex.result = "true"

\* the request is for the repository r at the endpoint of the entry i of
\* match_array
RequestFor(r, i) == cl.path = PathOf(r, match_array[i].suffix)

Classified == cl.pc \in {"index", "part_003"}

\* C14: for every repository r, POST /r/git-upload-pack with the content type
\* of its request classifies as PULL, POST /r/git-receive-pack with the
\* content type of its request as PUSH, and GET /r/info/refs with a valid
\* service as INFO, each with the repository r.
C14_ClassifiesWithRepository ==
  Classified =>
    \A r \in ClRepositories :
      /\ (RequestFor(r, 1) /\ cl.method = "POST"
            /\ cl.content_type = "application/x-git-upload-pack-request")
           => (cl.result.type = "PULL" /\ cl.result.repository = r)
      /\ (RequestFor(r, 2) /\ cl.method = "POST"
            /\ cl.content_type = "application/x-git-receive-pack-request")
           => (cl.result.type = "PUSH" /\ cl.result.repository = r)
      /\ (RequestFor(r, 3) /\ cl.method = "GET"
            /\ cl.query \in {<<GitDash \o UploadPackName>>, <<GitDash \o ReceivePackName>>})
           => (cl.result.type = "INFO" /\ cl.result.repository = r)

\* the entry of match_array whose pattern fits the path, 0 when none does
EntryOf(path) ==
  LET fits == {i \in 1..Len(match_array) : RegExec(match_array[i].suffix, path) # <<>>}
  IN IF fits = {} THEN 0 ELSE CHOOSE i \in fits : TRUE

EndpointService(i) == IF i = 1 THEN "upload-pack" ELSE "receive-pack"

ValidQueries == {<<GitDash \o UploadPackName>>, <<GitDash \o ReceivePackName>>}

\* the request fails one of the checks of its endpoint
Mismatch ==
  LET i == EntryOf(cl.path)
  IN \/ i \in {1, 2} /\ cl.method # "POST"
     \/ i = 3 /\ cl.method # "GET"
     \/ i \in {1, 2} /\ cl.content_type # RequestType(EndpointService(i))
     \/ i = 3 /\ cl.query \notin ValidQueries

\* C15: a request whose path fits the pattern of an RPC endpoint or of
\* info/refs classifies as UNKNOWN whenever its method is wrong, its RPC
\* content type is not that of the request of the service, or its info/refs
\* service parameter names neither upload-pack nor receive-pack.
C15_MismatchIsUnknown ==
  (cl.pc = "part_003" /\ EntryOf(cl.path) # 0 /\ Mismatch) => cl.result.type = "UNKNOWN"

\* a fetch request that would classify, but for its content type
C15_Witness ==
  /\ cl.pc = "part_003"
  /\ cl.path = match_array[1].suffix /\ cl.method = "POST"
  /\ cl.content_type = "text/plain"
  /\ cl.result.type = "UNKNOWN"

\* C16: once `parsed` has fired (the inner `source` exists) it stays so and no
\* step changes the metadata, whatever is written to the engine afterwards; and
\* a call on the proxy of a known service, which only a caller that create()
\* has handed the proxy to can make, comes after `parsed`.
C16_MetadataFixedAfterParsed ==
  [][/\ gs.source => (gs'.source /\ gs'.metadata = gs.metadata)
     /\ (HasEngine /\ px'.ncalls > px.ncalls) => gs.source]_vars

\* a line of `have` was written to the engine after `parsed`, and the caller
\* has made a call on the proxy
C16_Witness ==
  /\ req.type = "PULL" /\ req.plan.tail = <<HaveFrame>>
  /\ gs.source /\ io.body = <<>> /\ px.ncalls > 0
  /\ MetaList("want") = <<IdOf("a")>> /\ MetaList("have") = <<>>

\* C17: for every request with a known service wait(), and with it create(),
\* resolves, also when the body ends with no flush packet and no unparsable
\* frame.  Nothing is written to the engine after the body has ended, so
\* wait() resolves by then or never.
C17_WaitResolvesByEndOfBody == (HasEngine /\ io.finished) => Created

(***************************************************************************)
(* Properties of the side band.                                            *)
(***************************************************************************)
\* the messages passed to verbose() before the output of the backend ended
EarlyMessages == SubSeq(gs.band.queue, 1, gs.band.early)

IsSuffix(a, b) == Len(a) <= Len(b) /\ SubSeq(b, Len(b) - Len(a) + 1, Len(b)) = a

C19_MessagesEmitted ==
  (gs.out_eof \/ gs.flush_error) =>
    \A i \in 1..gs.band.early : \E j \in 1..Len(gs.out) : gs.out[j] = gs.band.queue[i]

(***************************************************************************)
(* Properties of the middleware.                                           *)
(***************************************************************************)
\* the chain returned with the status still pending, auto_deploy is set, and
\* exists() found the repository of a request for a known service
Deployed == mw.pc = "done" /\ mw.deployed /\ HasEngine /\ ex.result = "true"

\* C20: with auto_deploy true a request for an existing repository and a
\* known service that no handler downstream accepted or rejected is accepted
\* by the middleware once the chain has returned; with auto_deploy false it is
\* rejected.
C20_AutoDeploy ==
  Deployed => px.status = (IF mw.auto_deploy = "true" THEN "ACCEPTED" ELSE "REJECTED")

(***************************************************************************)
(* Properties of the signals.                                              *)
(***************************************************************************)
\* the signals dispatched, onError left out
Outcome == SelectSeq(px.signals, LAMBDA x : x # "onError")

\* the call that took the status has run to its end
CallOver == px.status # "PENDING" /\ px.acc.pc # "await"

\* C21: whenever accept() or reject() has moved the status out of PENDING,
\* onFinal is dispatched exactly once, after exactly one onAccept (for accept)
\* or one onReject (for reject), for every service type and with or without a
\* repository path.
C21_OneOutcomeThenFinal ==
  CallOver =>
    Outcome = (IF px.status = "ACCEPTED" THEN <<"onAccept", "onFinal">>
               ELSE <<"onReject", "onFinal">>)

(***************************************************************************)
(* Properties of the relay.                                                *)
(***************************************************************************)
\* C22: once attached no party stays suspended for ever; in particular, after
\* the output of the backend has ended the readable side of the engine ends.
\* flush() runs when `source` finishes and pushes nothing later, so the
\* readable side has ended by then or never ends.
C22_OutputEndsAfterBackend == gs.src_finished => gs.out_eof

(***************************************************************************)
(* Properties of the length reader and of the segmenter's loop.            *)
(***************************************************************************)
\* the 4 bytes of buffer from `offset` on are four digits of radix 16
FourHexAt(buffer, offset) ==
  offset + 4 <= Len(buffer) /\ \A i \in 1..4 : IsHex(buffer[offset + i])

\* the value of the 4 digits of buffer from `offset` on, -1 without 4 digits
LengthAt(buffer, offset) ==
  IF FourHexAt(buffer, offset)
  THEN Num(HexValue(SubSeq(buffer, offset + 1, offset + 4), 0))
  ELSE Num(-1)

\* C26: for every buffer the segmenter holds and every offset into it, the
\* length reader returns the value of the 4 digits of radix 16 at that offset,
\* and -1 when the 4 bytes there are not four such digits
C26_LengthAtEveryOffset ==
  \A r \in Runs : \A offset \in 0..Len(sep[r].buffer) :
    sep[r].buffer # <<>> =>
      pkt_length(sep[r].buffer, Num(offset)) = LengthAt(sep[r].buffer, offset)

\* the 4 digits of radix 16 of n, padded with zeros
Hex4(n) ==
  <<Digits[((n \div 4096) % 16) + 1], Digits[((n \div 256) % 16) + 1],
    Digits[((n \div 16) % 16) + 1], Digits[(n % 16) + 1]>>

\* C27: for a payload of at most 0xFFFF - 4 bytes, the length read at offset 0
\* of the line written for it is the length of the payload plus 4, and the
\* line is that length as 4 digits padded with zeros, then the payload
C27_WriteReadRoundTrip ==
  (pk.pc = "read" /\ Len(pk.input) <= 65535 - 4) =>
    /\ pk.length = Num(Len(pk.input) + 4)
    /\ pk.line = Hex4(Len(pk.input) + 4) \o pk.input

\* a payload of the largest length was written and read back
C27_Witness == pk.pc = "read" /\ Len(pk.input) = 65535 - 4

\* C28: the scan of a chunk ends after finitely many emissions and calls
\* next() once.  A scan that ends consumes at least one byte per emission, so
\* a loop suspended after an emission has emitted no more chunks than its
\* buffer has bytes; stated for the run that is handed its input as one chunk
C28_ScanTerminates ==
  sep["whole"].pc = "tick" => Len(sep["whole"].out) <= Len(sep["whole"].buffer)

\* C29: a chunk taken with no underflow pending whose leading bytes cannot be
\* read as a length is emitted verbatim once, and nothing else is emitted for
\* it; stated for the run that is handed its input as one chunk
C29_UnreadableChunkOnce ==
  (/\ sep["whole"].input # <<>>
   /\ sep["whole"].chunks = <<>>
   /\ pkt_length(sep["whole"].buffer, Num(0)) = NaN)
    => sep["whole"].out = <<sep["whole"].buffer>>

\* C24: when the body ends while the segmenter still holds the start of a
\* frame as underflow, the end is reported as an error and the bytes held are
\* not dropped in silence
C24_TruncatedBodyReported ==
  \A r \in Runs : (sep[r].ended /\ sep[r].underflow.set) => sep[r].error

(***************************************************************************)
(* Order of the bytes that reach the backend.                              *)
(***************************************************************************)
\* the frames of the request's body, as the segmenter hands them over
BodyFrames ==
  IF req.type = "PUSH" THEN ReceiveBody(req.plan)
  ELSE IF req.type = "PULL" THEN UploadBody(req.plan)
  ELSE <<>>

RECURSIVE Collected(_)
\* the frames _write buffers: up to and including the first one whose length
\* is not above 0, the one that triggers 'parsed'
Collected(frames) ==
  IF frames = <<>> THEN <<>>
  ELSE IF JsGt(pkt_length(Head(frames), Num(0)), 0)
  THEN <<Head(frames)>> \o Collected(Tail(frames))
  ELSE <<Head(frames)>>

\* C30: what has reached the stdin of the backend is at every moment a prefix
\* of what was written to the engine.  Until the replay nothing has reached
\* it and all that was written is buffered, the frame that triggered 'parsed'
\* included; from the replay on what was written is what has reached stdin
\* followed by what `source` still queues, so every buffered byte comes
\* before every later one and none is missing once the queue is through
C30_BufferedBeforeLive ==
  (HasEngine /\ ~gs.hasInfo) =>
    /\ IsPrefix(io.stdin, io.written)
    /\ gs.buffers.set => io.stdin = <<>> /\ Concat(gs.buffers.list) = io.written
    /\ ~gs.buffers.set => io.stdin \o Concat(gs.src_queue) = io.written

\* a fetch whose body goes on after the flush packet: the buffered frames and
\* then bytes written after 'parsed' have reached stdin
C30_Witness ==
  /\ req.type = "PULL" /\ gs.source /\ io.attached
  /\ Len(Collected(BodyFrames)) >= 2
  /\ Len(io.stdin) > Len(Concat(Collected(BodyFrames)))

(***************************************************************************)
(* Errors of the streams around the engine.                                *)
(***************************************************************************)
\* the origins of the errors raised on an attached stream, in their order
RaisedAttached ==
  LET kept == SelectSeq(er.raised, LAMBDA x : x.attached)
  IN [i \in 1..Len(kept) |-> kept[i].from]

\* C23: an error raised by the stdout or the stdin of the backend once they
\* are attached, or by `source`, is emitted as an 'error' event on the engine
C23_StreamErrorsEmitted == er.emitted = RaisedAttached

\* the stdin of the backend and `source` have both raised an error after the
\* attachment, and both were emitted on the engine
C23_Witness ==
  /\ io.attached
  /\ RaisedAttached = <<"stdin", "source">>
  /\ er.emitted = <<"stdin", "source">>

\* C25: when the request emits 'error' or is aborted while the engine is
\* attached to the backend, the engine emits an 'error' event (and passes the
\* error on to the pipes of the backend)
C25_AbortSurfaces ==
  (er.aborted /\ io.attached) => er.emitted # <<>>

(***************************************************************************)
(* The output of the backend on its way to the client.                     *)
(***************************************************************************)
\* what was read from the engine, without the advertisement header if the
\* output starts with one
AfterHeader ==
  LET all == Concat(gs.out)
      h   == Headers(req.service)
  IN IF req.type = "INFO" /\ h # <<>> /\ IsPrefix(h, all)
     THEN SubSeq(all, Len(h) + 1, Len(all)) ELSE all

\* C31: with no side-band message queued, what the client was given when the
\* output ended is, after the advertisement header, the output of the backend
\* byte for byte, however the backend cut it into chunks
C31_OutputVerbatim ==
  (HasEngine /\ ~gs.band.set /\ gs.out_eof) => AfterHeader = io.produced

\* C32: when the output of the backend ended with a flush packet that was held
\* back, the output of the engine ends, and its last chunk is one flush packet
\* that follows the output of the backend and every message queued by then
C32_FlushReappended ==
  (gs.src_finished /\ gs.needs_flush) =>
    /\ gs.out_eof
    /\ gs.out # <<>> /\ gs.out[Len(gs.out)] = zero_buffer
    /\ \A i \in 1..gs.band.early :
         \E j \in 1..(Len(gs.out) - 1) : gs.out[j] = gs.band.queue[i]

(***************************************************************************)
(* What reaches the backend, and when.                                     *)
(***************************************************************************)
\* C33: while the status is pending or rejected nothing has reached the stdin
\* of the backend and the command was not invoked; what is written before
\* 'parsed' is only buffered; the command is invoked at most once, with
\* --stateless-rpc, by the accept() that took the status
C33_NothingForwardedUnlessAccepted ==
  /\ px.status \in {"PENDING", "REJECTED"} =>
       io.stdin = <<>> /\ px.calls = <<>> /\ ~io.attached
  /\ (HasEngine /\ ~gs.source) => gs.src_queue = <<>> /\ io.stdin = <<>>
  /\ Len(px.calls) <= 1
  /\ \A i \in 1..Len(px.calls) :
       px.status = "ACCEPTED" /\ px.calls[i].args[1] = "--stateless-rpc"

\* the body was written and replayed into `source`, reject() took the status
\* and accept() was called as well: nothing reached the backend
C33_Witness ==
  /\ px.status = "REJECTED" /\ px.naccepts >= 1
  /\ io.written # <<>> /\ gs.src_queue # <<>>
  /\ io.stdin = <<>> /\ px.calls = <<>>

(***************************************************************************)
(* The frame that ends the collection of metadata.                         *)
(***************************************************************************)
\* exactly the first frame of the body was written to the engine
FirstWritten == BodyFrames # <<>> /\ io.body = Tail(BodyFrames)

\* C34: for receive-pack 'parsed' fires as soon as the command frame
\* `old new ref\0capabilities` was written, with no flush packet after it
C34_CommandEndsCollection ==
  (req.type = "PUSH" /\ FirstWritten) => gs.source

\* C35: for upload-pack a frame written while collecting fires 'parsed' if it
\* is a flush packet or cannot be parsed, and only then; a frame of `want` or
\* `have` does not fire it, is recorded in the metadata and is acknowledged at
\* once.  Stated for the first frame of the body
C35_OnlyFlushEndsCollection ==
  (req.type = "PULL" /\ FirstWritten) =>
    IF req.plan.lines # <<>>
    THEN /\ ~gs.source /\ ~gs.next
         /\ MetaList("want") = IdsOf(<<req.plan.lines[1]>>, <<"w", "a", "n", "t">>)
         /\ MetaList("have") = IdsOf(<<req.plan.lines[1]>>, <<"h", "a", "v", "e">>)
    ELSE gs.source

(***************************************************************************)
(* Backpressure from the consumer of the engine to the backend.            *)
(***************************************************************************)
\* C36: a write of backend output is acknowledged only for a pull of the
\* consumer, and a pull releases at most one write: a write is either held
\* until the next _read, or uses up the _read that came before it
C36_OneWritePerPull ==
  [][io'.backend # io.backend =>
       \/ gs'.src_next
       \/ gs.ready /\ ~gs'.ready]_vars

(***************************************************************************)
(* Requests that are no git request.                                       *)
(***************************************************************************)
\* C37: for every method, path, query and content type the construction of
\* the proxy completes without throwing, and a request that fits no pattern
\* or fails a check is classified with the unknown type
C37_ClassifyNeverThrows ==
  cl.pc \in {"index", "part_003"} =>
    /\ ~cl.threw
    /\ cl.result.type \in {"UNKNOWN", "INFO", "PULL", "PUSH"}

(***************************************************************************)
(* The ref of a push.                                                      *)
(***************************************************************************)
\* C38: for a command on refs/<type>/<name>, once 'parsed' has fired the ref
\* type of the metadata is <type> as it stands and the ref name is all that
\* follows the slash after it, further slashes included
C38_RefTypeAndName ==
  (req.type = "PUSH" /\ gs.source) =>
    /\ gs.metadata.reftype = req.plan.cmd.type
    /\ gs.metadata.refname = req.plan.cmd.name

(***************************************************************************)
(* Conservation of bytes in the segmenter.                                 *)
(***************************************************************************)
\* the bytes of the chunks handed to transform() so far
SepTaken(r) ==
  Concat(SubSeq(sep[r].input, 1, Len(sep[r].input) - Len(sep[r].chunks)))

\* C39: whenever a chunk was processed in full, what was emitted so far
\* followed by the underflow is what was taken so far; and at every point what
\* was emitted is a prefix of what was taken: no byte is lost, none is emitted
\* twice
C39_BytesConserved ==
  \A r \in Runs :
    /\ sep[r].pc = "idle" => Concat(sep[r].out) \o sep[r].underflow.buf = SepTaken(r)
    /\ IsPrefix(Concat(sep[r].out), SepTaken(r))

(***************************************************************************)
(* The response of an accepted request.                                    *)
(***************************************************************************)
\* C40: once accept() has returned with the status taken from pending to
\* accepted, the response has status 200 and the engine as its body, for a
\* request of any type and with or without a repository path
C40_AcceptedHasResponse ==
  (px.status = "ACCEPTED" /\ px.acc.pc \in {"idle", "done"}) =>
    px.ctx.status = 200 /\ px.ctx.body = "source"

====
